---- MODULE Spec2Model ----
(***************************************************************************)
(* A model of the FAT32 volume layer of BySajed/fat32_reader.              *)
(*                                                                         *)
(*   src/src/fat32/volume.rs        Fat32Volume (in-memory image, no_std)  *)
(*   src/src/bpb.rs                 BiosParameterBlock (file based)        *)
(*   src/fat32_reader/src/fat32.rs  Fat32Image (file based reader)         *)
(*                                                                         *)
(* Bytes are the integers 0..255.  A byte range (the image, a slice of it) *)
(* is a function on 0..n-1.  Text is a sequence of character codes; the    *)
(* code U+FFFD stands for the replacement character of from_utf8_lossy.    *)
(* u8/u16/u32 values are integers (TLC's integers end at 2^31-1, so the    *)
(* model's inputs keep u32 values below 2^31); u64 values are exact        *)
(* little-endian base-256 digit sequences, so the 64-bit arithmetic of     *)
(* offset_from_cluster is computed at full width.                          *)
(***************************************************************************)
EXTENDS Integers, Sequences, FiniteSets, TLC

VARIABLES
  data,             \* Fat32Volume.data / the image file: the backing byte range
  boot_sector,      \* Fat32Volume.boot_sector / Fat32Image.boot_sector
  current_cluster,  \* Fat32Volume.current_cluster
  result            \* what the last call returned (and which call it was)

vars == <<data, boot_sector, current_cluster, result>>

(***************************************************************************)
(* Sequences and byte ranges                                               *)
(***************************************************************************)
Min(a, b) == IF a < b THEN a ELSE b

\* data.len()
ByteLen(d) == Cardinality(DOMAIN d)

\* &d[from..to] as a sequence of bytes (from <= to <= d.len())
Slice(d, from, to) == [i \in 1..(to - from) |-> d[from + i - 1]]

\* d[at..at+len(bytes)].copy_from_slice(bytes)
CopyFromSlice(d, at, bytes) ==
  [i \in DOMAIN d |-> IF i >= at /\ i < at + Len(bytes) THEN bytes[i - at + 1] ELSE d[i]]

(***************************************************************************)
(* Exact unsigned arithmetic: a number is the sequence of its base-256     *)
(* digits, least significant first, without leading zeros (0 is <<>>).     *)
(***************************************************************************)
RECURSIVE Big(_)
Big(n) == IF n = 0 THEN <<>> ELSE <<n % 256>> \o Big(n \div 256)

RECURSIVE Norm(_)
Norm(x) == IF x = <<>> THEN <<>>
           ELSE IF x[Len(x)] = 0 THEN Norm(SubSeq(x, 1, Len(x) - 1)) ELSE x

RECURSIVE AddC(_, _, _)
AddC(a, b, c) ==
  IF a = <<>> /\ b = <<>> THEN (IF c = 0 THEN <<>> ELSE <<c>>)
  ELSE LET x == IF a = <<>> THEN 0 ELSE Head(a)
           y == IF b = <<>> THEN 0 ELSE Head(b)
           s == x + y + c
       IN <<s % 256>> \o AddC(IF a = <<>> THEN a ELSE Tail(a),
                              IF b = <<>> THEN b ELSE Tail(b), s \div 256)

BigAdd(a, b) == AddC(a, b, 0)

RECURSIVE MulD(_, _, _)
MulD(a, d, c) ==
  IF a = <<>> THEN (IF c = 0 THEN <<>> ELSE <<c>>)
  ELSE LET p == Head(a) * d + c
       IN <<p % 256>> \o MulD(Tail(a), d, p \div 256)

RECURSIVE BigMul(_, _)
BigMul(a, b) ==
  IF a = <<>> \/ b = <<>> THEN <<>>
  ELSE LET rest == BigMul(a, Tail(b))
           shifted == IF rest = <<>> THEN <<>> ELSE <<0>> \o rest
       IN BigAdd(IF Head(b) = 0 THEN <<>> ELSE MulD(a, Head(b), 0), shifted)

\* a - b for a >= b
RECURSIVE SubB(_, _, _)
SubB(a, b, borrow) ==
  IF a = <<>> THEN <<>>
  ELSE LET y == IF b = <<>> THEN 0 ELSE Head(b)
           s == Head(a) - y - borrow
       IN <<IF s < 0 THEN s + 256 ELSE s>>
            \o SubB(Tail(a), IF b = <<>> THEN b ELSE Tail(b), IF s < 0 THEN 1 ELSE 0)

RECURSIVE BigLt(_, _)
BigLt(a, b) ==
  IF Len(a) # Len(b) THEN Len(a) < Len(b)
  ELSE IF a = <<>> THEN FALSE
  ELSE IF a[Len(a)] # b[Len(b)] THEN a[Len(a)] < b[Len(b)]
  ELSE BigLt(Norm(SubSeq(a, 1, Len(a) - 1)), Norm(SubSeq(b, 1, Len(b) - 1)))

BigSub(a, b) == Norm(SubB(a, b, 0))

RECURSIVE ToInt(_)
ToInt(x) == IF x = <<>> THEN 0 ELSE Head(x) + 256 * ToInt(Tail(x))

\* 2^64
Pow64 == <<0, 0, 0, 0, 0, 0, 0, 0, 1>>

\* a u64 result: the value modulo 2^64
Wrap64(x) == Norm(SubSeq(x, 1, Min(Len(x), 8)))

\* whether the exact value does not fit in 64 bits
Overflows64(x) == Len(Norm(x)) > 8

AddU64(a, b) == Wrap64(BigAdd(a, b))
MulU64(a, b) == Wrap64(BigMul(a, b))
SubU64(a, b) == IF BigLt(a, b) THEN BigSub(BigAdd(a, Pow64), b) ELSE BigSub(a, b)

(***************************************************************************)
(* Little-endian fields                                                    *)
(***************************************************************************)
\* read_u16 with the two bytes taken in the other order
read_u16_big_endian(d, offset) == 256 * d[offset] + d[offset + 1]

\* u16::from_le_bytes(d[offset..offset+2])
read_u16(d, offset) == d[offset] + 256 * d[offset + 1]

\* u32::from_le_bytes(d[offset..offset+4])
read_u32(d, offset) ==
  d[offset] + 256 * d[offset + 1] + 65536 * d[offset + 2] + 16777216 * d[offset + 3]

\* d[offset]
read_u8(d, offset) == d[offset]

\* v.to_le_bytes() of a u16
u16_to_le_bytes(v) == <<v % 256, (v \div 256) % 256>>

\* v.to_le_bytes() of a u32
u32_to_le_bytes(v) ==
  <<v % 256, (v \div 256) % 256, (v \div 65536) % 256, (v \div 16777216) % 256>>

(***************************************************************************)
(* Opening: the three boot-sector parsers                                  *)
(***************************************************************************)
\* Fat32Volume::new (volume.rs 17-43): every field is read at its fixed offset;
\* slicing a range shorter than the last field (bytes 44..47) panics.
Fat32Volume_new(d) ==
  IF ByteLen(d) < 48 THEN [panic |-> TRUE]
  ELSE LET bs == [bytes_per_sector    |-> read_u16(d, 11),
                  sectors_per_cluster |-> read_u8(d, 13),
                  reserved_sectors    |-> read_u16(d, 14),
                  number_of_fats      |-> read_u8(d, 16),
                  root_entries        |-> read_u16(d, 17),
                  total_sectors_16    |-> read_u16(d, 19),
                  media_descriptor    |-> read_u8(d, 21),
                  sectors_per_fat_16  |-> read_u16(d, 22),
                  sectors_per_track   |-> read_u16(d, 24),
                  heads               |-> read_u16(d, 26),
                  hidden_sectors      |-> read_u32(d, 28),
                  total_sectors_32    |-> read_u32(d, 32),
                  sectors_per_fat_32  |-> read_u32(d, 36),
                  ext_flags           |-> read_u16(d, 40),
                  fs_version          |-> read_u16(d, 42),
                  root_dir_cluster    |-> read_u32(d, 44)]
       IN [panic |-> FALSE, boot_sector |-> bs, current_cluster |-> bs.root_dir_cluster]

\* BiosParameterBlock::new (bpb.rs 29-66): read_exact of 512 bytes, the
\* signature test, then the fields.
BiosParameterBlock_new(file) ==
  IF ByteLen(file) < 512 THEN [ok |-> FALSE, err |-> "Erreur lecture BPB"]
  ELSE LET buf == [i \in 0..511 |-> file[i]] IN
    IF buf[510] # 85 \/ buf[511] # 170
    THEN [ok |-> FALSE, err |-> "Signature de boot invalide (pas FAT)"]
    ELSE [ok |-> TRUE,
          bpb |-> [bytes_per_sector    |-> read_u16(buf, 11),
                   sectors_per_cluster |-> buf[13],
                   reserved_sectors    |-> read_u16(buf, 14),
                   num_fats            |-> buf[16],
                   root_entries        |-> read_u16(buf, 17),
                   total_sectors_16    |-> read_u16(buf, 19),
                   media               |-> buf[21],
                   fat_size_16         |-> read_u16(buf, 22),
                   sectors_per_track   |-> read_u16(buf, 24),
                   num_heads           |-> read_u16(buf, 26),
                   hidden_sectors      |-> read_u32(buf, 28),
                   total_sectors_32    |-> read_u32(buf, 32),
                   fat_size_32         |-> read_u32(buf, 36),
                   ext_flags           |-> read_u16(buf, 40),
                   fs_version          |-> read_u16(buf, 42),
                   root_cluster        |-> read_u32(buf, 44),
                   fs_info             |-> read_u16(buf, 48),
                   backup_boot_sector  |-> read_u16(buf, 50)]]

\* Fat32Image::new (fat32.rs 27-52): seek to 11, 36 and 44 and read the six
\* fields; a read past the end of the file is an io error.
Fat32Image_new(file) ==
  IF ByteLen(file) < 48 THEN [ok |-> FALSE, err |-> "UnexpectedEof"]
  ELSE [ok |-> TRUE,
        boot_sector |-> [bytes_per_sector    |-> read_u16(file, 11),
                         sectors_per_cluster |-> read_u8(file, 13),
                         reserved_sector     |-> read_u16(file, 14),
                         number_of_fats      |-> read_u8(file, 16),
                         sectors_per_fat     |-> read_u32(file, 36),
                         root_dir_cluster    |-> read_u32(file, 44)]]

(***************************************************************************)
(* Cluster number to byte offset                                           *)
(***************************************************************************)
\* The exact (unbounded) value of the expression of volume.rs 68-73, before
\* any reduction modulo 2^64.
offset_exact(bs, cluster) ==
  LET reserved == Big(bs.reserved_sectors)
      fats == Big(bs.number_of_fats)
      spf == Big(bs.sectors_per_fat_32)
      spc == Big(bs.sectors_per_cluster)
      bps == Big(bs.bytes_per_sector)
      first_data_sector == BigAdd(reserved, BigMul(fats, spf))
      cluster_num == IF cluster < 2 THEN 2 ELSE cluster
      cluster_offset == BigMul(BigSub(Big(cluster_num), Big(2)), spc)
      total_sectors == BigAdd(first_data_sector, cluster_offset)
  IN BigMul(total_sectors, bps)

\* offset_from_cluster counting clusters from 1 instead of 2
offset_from_cluster_off_by_one(bs, cluster) ==
  LET first_data_sector == AddU64(Big(bs.reserved_sectors),
                                  MulU64(Big(bs.number_of_fats), Big(bs.sectors_per_fat_32)))
      cluster_num == IF cluster < 2 THEN 2 ELSE cluster
      cluster_offset == MulU64(SubU64(Big(cluster_num), Big(1)), Big(bs.sectors_per_cluster))
  IN MulU64(AddU64(first_data_sector, cluster_offset), Big(bs.bytes_per_sector))

\* offset_from_cluster with the product taken in 32 bits
offset_from_cluster_u32(bs, cluster) ==
  LET product == offset_exact(bs, cluster)
  IN Norm(SubSeq(product, 1, Min(Len(product), 4)))

\* Fat32Volume::offset_from_cluster (volume.rs 61-74), in u64 arithmetic.
offset_from_cluster(bs, cluster) ==
  LET reserved == Big(bs.reserved_sectors)
      fats == Big(bs.number_of_fats)
      spf == Big(bs.sectors_per_fat_32)
      spc == Big(bs.sectors_per_cluster)
      bps == Big(bs.bytes_per_sector)
      first_data_sector == AddU64(reserved, MulU64(fats, spf))
      cluster_num == IF cluster < 2 THEN 2 ELSE cluster
      cluster_offset == MulU64(SubU64(Big(cluster_num), Big(2)), spc)
      total_sectors == AddU64(first_data_sector, cluster_offset)
  IN MulU64(total_sectors, bps)

\* Fat32Image::offset_from_cluster (fat32.rs 54-62): no clamp.  `cluster as
\* u64 - 2` underflows for cluster < 2: a build with overflow checks panics
\* there, a build without them wraps modulo 2^64.
Fat32Image_offset_from_cluster(bs, cluster, overflow_checks) ==
  LET first_data_sector == AddU64(Big(bs.reserved_sector),
                                  MulU64(Big(bs.number_of_fats), Big(bs.sectors_per_fat)))
      cluster_offset == MulU64(SubU64(Big(cluster), Big(2)), Big(bs.sectors_per_cluster))
      total_sectors == AddU64(first_data_sector, cluster_offset)
      exact == BigMul(BigAdd(BigAdd(Big(bs.reserved_sector),
                                    BigMul(Big(bs.number_of_fats), Big(bs.sectors_per_fat))),
                             BigMul(SubU64(Big(cluster), Big(2)), Big(bs.sectors_per_cluster))),
                      Big(bs.bytes_per_sector))
  IN IF overflow_checks /\ (cluster < 2 \/ Overflows64(exact))
     THEN [panic |-> TRUE]
     ELSE [panic |-> FALSE, offset |-> MulU64(total_sectors, Big(bs.bytes_per_sector))]

\* The boot-sector view Fat32Image keeps, taken from Fat32Volume's record.
ImageBootSector(bs) ==
  [bytes_per_sector    |-> bs.bytes_per_sector,
   sectors_per_cluster |-> bs.sectors_per_cluster,
   reserved_sector     |-> bs.reserved_sectors,
   number_of_fats      |-> bs.number_of_fats,
   sectors_per_fat     |-> bs.sectors_per_fat_32,
   root_dir_cluster    |-> bs.root_dir_cluster]

(***************************************************************************)
(* Text                                                                    *)
(***************************************************************************)
\* String::from_utf8_lossy on bytes that hold no valid multi-byte sequence
\* (the model's name fields hold ASCII and isolated bytes >= 0x80): a byte
\* below 0x80 is its own character, any other is U+FFFD.
from_utf8_lossy(bytes) == [i \in 1..Len(bytes) |-> IF bytes[i] < 128 THEN bytes[i] ELSE 65533]

\* char::is_whitespace, on the characters above
is_whitespace(c) == c \in {9, 10, 11, 12, 13, 32}

RECURSIVE trim_start(_)
trim_start(t) == IF t # <<>> /\ is_whitespace(Head(t)) THEN trim_start(Tail(t)) ELSE t

RECURSIVE trim_end(_)
trim_end(t) == IF t # <<>> /\ is_whitespace(t[Len(t)])
               THEN trim_end(SubSeq(t, 1, Len(t) - 1)) ELSE t

\* str::trim
trim(t) == trim_end(trim_start(t))

\* u8::to_ascii_uppercase / char::to_ascii_lowercase
to_ascii_uppercase(b) == IF b >= 97 /\ b <= 122 THEN b - 32 ELSE b
to_ascii_lowercase(c) == IF c >= 65 /\ c <= 90 THEN c + 32 ELSE c

\* str::eq_ignore_ascii_case
eq_ignore_ascii_case(a, b) ==
  /\ Len(a) = Len(b)
  /\ \A i \in 1..Len(a) : to_ascii_lowercase(a[i]) = to_ascii_lowercase(b[i])

\* str::to_lowercase, on ASCII and U+FFFD
to_lowercase(t) == [i \in 1..Len(t) |-> to_ascii_lowercase(t[i])]

\* format!("{}.{}", name, ext)
dotted(name, ext) == name \o <<46>> \o ext

\* str::split(sep).collect(): the pieces between the separators, at least one
RECURSIVE split(_, _)
split(t, sep) ==
  IF \A i \in 1..Len(t) : t[i] # sep THEN <<t>>
  ELSE LET k == CHOOSE i \in 1..Len(t) : t[i] = sep /\ \A j \in 1..(i - 1) : t[j] # sep
       IN <<SubSeq(t, 1, k - 1)>> \o split(SubSeq(t, k + 1, Len(t)), sep)

(***************************************************************************)
(* Directory records (volume.rs)                                           *)
(***************************************************************************)
\* &self.data[cursor..cursor+32], indexed 0..31 as in the source
EntryAt(d, cursor) == [i \in 0..31 |-> d[cursor + i]]

\* entry[0..8] and entry[8..11], lossily decoded and trimmed
entry_name(entry) == trim(from_utf8_lossy([i \in 1..8 |-> entry[i - 1]]))
entry_ext(entry) == trim(from_utf8_lossy([i \in 1..3 |-> entry[i + 7]]))

\* (attr & 0x10) != 0 and (attr & 0x08) != 0
attr_directory(attr) == (attr \div 16) % 2 = 1
attr_volume_label(attr) == (attr \div 8) % 2 = 1

\* ((cluster_hi as u32) << 16) | (cluster_lo as u32), from bytes 20..21 and 26..27
entry_cluster(entry) ==
  LET cluster_hi == entry[20] + 256 * entry[21]
      cluster_lo == entry[26] + 256 * entry[27]
  IN cluster_hi * 65536 + cluster_lo

\* u32::from_le_bytes(entry[28..32])
entry_size(entry) == entry[28] + 256 * entry[29] + 65536 * entry[30] + 16777216 * entry[31]

\* `offset as usize` of a cluster when it lies within the range, else the
\* length of the range (every scan loop then ends at its first bounds test,
\* as it does for any offset beyond the range).
start_cursor(d, bs, cluster) ==
  LET offset == offset_from_cluster(bs, cluster)
  IN IF BigLt(Big(ByteLen(d)), offset) THEN ByteLen(d) ELSE ToInt(offset)

\* list_loop ending the scan at a deleted record
RECURSIVE list_loop_stops_at_deleted(_, _, _, _)
list_loop_stops_at_deleted(d, cursor, k, files) ==
  IF k >= 128 \/ cursor + 32 > ByteLen(d) THEN files
  ELSE LET entry == EntryAt(d, cursor) IN
    IF entry[0] = 0 \/ entry[0] = 229 THEN files
    ELSE LET attr == entry[11] IN
      IF attr # 15 /\ ~attr_volume_label(attr)
      THEN LET name == entry_name(entry)
               ext == entry_ext(entry)
               is_dir == attr_directory(attr)
               full_name == IF is_dir \/ ext = <<>> THEN name ELSE dotted(name, ext)
           IN list_loop_stops_at_deleted(d, cursor + 32, k + 1,
                        Append(files, [type_str |-> IF is_dir THEN "<DIR>" ELSE "     ",
                                       full_name |-> full_name, size |-> entry_size(entry),
                                       slot |-> k]))
      ELSE list_loop_stops_at_deleted(d, cursor + 32, k + 1, files)

\* Fat32Volume::list_directory (volume.rs 96-124): the loop from iteration k,
\* with the cursor and the entries pushed so far.  An entry is the formatted
\* line's three fields and the index of the slot it was read from.
RECURSIVE list_loop(_, _, _, _)
list_loop(d, cursor, k, files) ==
  IF k >= 128 \/ cursor + 32 > ByteLen(d) THEN files
  ELSE LET entry == EntryAt(d, cursor) IN
    IF entry[0] = 0 THEN files
    ELSE IF entry[0] = 229 THEN list_loop(d, cursor + 32, k + 1, files)
    ELSE LET attr == entry[11] IN
      IF attr # 15 /\ ~attr_volume_label(attr)
      THEN LET name == entry_name(entry)
               ext == entry_ext(entry)
               is_dir == attr_directory(attr)
               full_name == IF is_dir \/ ext = <<>> THEN name ELSE dotted(name, ext)
               size == entry_size(entry)
           IN list_loop(d, cursor + 32, k + 1,
                        Append(files, [type_str |-> IF is_dir THEN "<DIR>" ELSE "     ",
                                       full_name |-> full_name, size |-> size, slot |-> k]))
      ELSE list_loop(d, cursor + 32, k + 1, files)

list_directory(d, bs, cluster) == list_loop(d, start_cursor(d, bs, cluster), 0, <<>>)

\* cd_loop stepping over a 0x00-marked slot instead of ending the scan
RECURSIVE cd_loop_skips_end(_, _, _, _, _)
cd_loop_skips_end(d, bs, cursor, k, dirname) ==
  IF k >= 128 \/ cursor + 32 > ByteLen(d) THEN [ok |-> FALSE, err |-> "Dossier introuvable"]
  ELSE LET entry == EntryAt(d, cursor) IN
    IF entry[0] = 0 THEN cd_loop_skips_end(d, bs, cursor + 32, k + 1, dirname)
    ELSE LET name == entry_name(entry)
             ext == entry_ext(entry)
             full_name == IF ext # <<>> THEN dotted(name, ext) ELSE name
         IN IF eq_ignore_ascii_case(name, dirname) \/ eq_ignore_ascii_case(full_name, dirname)
            THEN IF attr_directory(entry[11])
                 THEN LET cluster == entry_cluster(entry)
                      IN [ok |-> TRUE, slot |-> k,
                          cluster |-> IF cluster = 0 THEN bs.root_dir_cluster ELSE cluster]
                 ELSE [ok |-> FALSE, err |-> "Ce n'est pas un dossier", slot |-> k]
            ELSE cd_loop_skips_end(d, bs, cursor + 32, k + 1, dirname)

\* Fat32Volume::change_directory (volume.rs 126-160): the loop from iteration k.
RECURSIVE cd_loop(_, _, _, _, _)
cd_loop(d, bs, cursor, k, dirname) ==
  IF k >= 128 \/ cursor + 32 > ByteLen(d) THEN [ok |-> FALSE, err |-> "Dossier introuvable"]
  ELSE LET entry == EntryAt(d, cursor) IN
    IF entry[0] = 0 THEN [ok |-> FALSE, err |-> "Dossier introuvable"]
    ELSE LET name == entry_name(entry)
             ext == entry_ext(entry)
             full_name == IF ext # <<>> THEN dotted(name, ext) ELSE name
         IN IF eq_ignore_ascii_case(name, dirname) \/ eq_ignore_ascii_case(full_name, dirname)
            THEN IF attr_directory(entry[11])
                 THEN LET cluster == entry_cluster(entry)
                      IN [ok |-> TRUE, slot |-> k,
                          cluster |-> IF cluster = 0 THEN bs.root_dir_cluster ELSE cluster]
                 ELSE [ok |-> FALSE, err |-> "Ce n'est pas un dossier", slot |-> k]
            ELSE cd_loop(d, bs, cursor + 32, k + 1, dirname)

change_directory(d, bs, cur, dirname) ==
  IF dirname = <<46>> THEN [ok |-> TRUE, cluster |-> cur, slot |-> -1]
  ELSE cd_loop(d, bs, start_cursor(d, bs, cur), 0, dirname)

\* Fat32Volume::read_file (volume.rs 162-194): the loop from iteration k.
RECURSIVE read_loop(_, _, _, _, _)
read_loop(d, bs, cursor, k, filename) ==
  IF k >= 128 \/ cursor + 32 > ByteLen(d) THEN [ok |-> FALSE, err |-> "Fichier introuvable"]
  ELSE LET entry == EntryAt(d, cursor) IN
    IF entry[0] = 0 THEN [ok |-> FALSE, err |-> "Fichier introuvable"]
    ELSE LET name == entry_name(entry)
             ext == entry_ext(entry)
             full_name == IF ext = <<>> THEN name ELSE dotted(name, ext)
         IN IF eq_ignore_ascii_case(full_name, filename)
            THEN IF attr_directory(entry[11])
                 THEN [ok |-> FALSE, err |-> "C'est un dossier, utilisez cd", slot |-> k]
                 ELSE LET cluster == entry_cluster(entry)
                          size == entry_size(entry)
                          data_offset == offset_from_cluster(bs, cluster)
                      IN IF ~BigLt(Big(ByteLen(d)), BigAdd(data_offset, Big(size)))
                         THEN [ok |-> TRUE, slot |-> k,
                               content |-> Slice(d, ToInt(data_offset), ToInt(data_offset) + size)]
                         ELSE read_loop(d, bs, cursor + 32, k + 1, filename)
            ELSE read_loop(d, bs, cursor + 32, k + 1, filename)

read_file(d, bs, cur, filename) == read_loop(d, bs, start_cursor(d, bs, cur), 0, filename)

(***************************************************************************)
(* Allocation and creation (volume.rs)                                     *)
(***************************************************************************)
\* 0x0FFFFFFF, the end-of-chain mark (volume.rs 84)
EOC == 268435455

\* sectors_per_fat_32 * bytes_per_sector as u32, exactly
fat_bytes_exact(bs) == BigMul(Big(bs.sectors_per_fat_32), Big(bs.bytes_per_sector))

\* allocate_loop taking the highest free entry instead of the lowest
RECURSIVE allocate_loop_highest(_, _, _, _)
allocate_loop_highest(d, fat_start, total_clusters, i) ==
  IF i >= total_clusters \/ fat_start + i * 4 + 4 > ByteLen(d)
  THEN [panic |-> FALSE, found |-> FALSE, data |-> d]
  ELSE LET later == allocate_loop_highest(d, fat_start, total_clusters, i + 1)
           offset == fat_start + i * 4
       IN IF later.found THEN later
          ELSE IF read_u32(d, offset) = 0
               THEN [panic |-> FALSE, found |-> TRUE, cluster |-> i,
                     data |-> CopyFromSlice(d, offset, u32_to_le_bytes(EOC))]
               ELSE later

\* allocate_loop returning the free cluster without marking its entry
RECURSIVE allocate_loop_leaves_entry_free(_, _, _, _)
allocate_loop_leaves_entry_free(d, fat_start, total_clusters, i) ==
  IF i >= total_clusters THEN [panic |-> FALSE, found |-> FALSE, data |-> d]
  ELSE LET offset == fat_start + i * 4 IN
    IF offset + 4 > ByteLen(d) THEN [panic |-> TRUE, found |-> FALSE, data |-> d]
    ELSE IF read_u32(d, offset) = 0
         THEN [panic |-> FALSE, found |-> TRUE, cluster |-> i, data |-> d]
         ELSE allocate_loop_leaves_entry_free(d, fat_start, total_clusters, i + 1)

\* Fat32Volume::allocate_cluster (volume.rs 76-90): the loop from index i.
\* Slicing data[offset..offset+4] beyond the range panics.
RECURSIVE allocate_loop(_, _, _, _)
allocate_loop(d, fat_start, total_clusters, i) ==
  IF i >= total_clusters THEN [panic |-> FALSE, found |-> FALSE, data |-> d]
  ELSE LET offset == fat_start + i * 4 IN
    IF offset + 4 > ByteLen(d) THEN [panic |-> TRUE, found |-> FALSE, data |-> d]
    ELSE IF read_u32(d, offset) = 0
         THEN [panic |-> FALSE, found |-> TRUE, cluster |-> i,
               data |-> CopyFromSlice(d, offset, u32_to_le_bytes(EOC))]
         ELSE allocate_loop(d, fat_start, total_clusters, i + 1)

\* allocate_cluster examining the FAT from index 2
allocate_cluster_from_two(d, bs, overflow_checks) ==
  allocate_loop(d, ToInt(MulU64(Big(bs.reserved_sectors), Big(bs.bytes_per_sector))),
                ToInt(fat_bytes_exact(bs)) \div 4, 2)

\* The u32 product of line 78 overflows when it does not fit in 32 bits: a
\* build with overflow checks panics, one without wraps modulo 2^32.
allocate_cluster(d, bs, overflow_checks) ==
  LET fat_start == ToInt(MulU64(Big(bs.reserved_sectors), Big(bs.bytes_per_sector)))
      product == fat_bytes_exact(bs)
      wrapped == Norm(SubSeq(product, 1, Min(Len(product), 4)))
  IN IF overflow_checks /\ Len(product) > 4
     THEN [panic |-> TRUE, found |-> FALSE, data |-> d]
     ELSE allocate_loop(d, fat_start, ToInt(wrapped) \div 4, 3)

\* The 11-byte name field of write_dir_entry (volume.rs 211-217).
name_field(filename) ==
  LET parts == split(filename, 46)
      name == parts[1]
      ext == IF Len(parts) >= 2 THEN parts[2] ELSE <<32, 32, 32>>
  IN [i \in 1..11 |->
        IF i <= 8 THEN (IF i <= Len(name) THEN to_ascii_uppercase(name[i]) ELSE 32)
        ELSE (IF i - 8 <= Len(ext) THEN to_ascii_uppercase(ext[i - 8]) ELSE 32)]

\* entry_stores with the two cluster halves exchanged
entry_stores_halves_swapped(filename, cluster, size) ==
  LET high == u16_to_le_bytes((cluster \div 65536) % 65536)
      low == u16_to_le_bytes(cluster % 65536)
  IN << <<0, name_field(filename)>>, <<11, <<32>>>>,
        <<20, <<low[1]>>>>, <<21, <<low[2]>>>>,
        <<26, <<high[1]>>>>, <<27, <<high[2]>>>>,
        <<28, u32_to_le_bytes(size)>> >>

\* The stores of volume.rs 219-225 in program order, each as (offset within
\* the slot, bytes); a store that reaches beyond the range panics and leaves
\* the earlier ones in place.
entry_stores(filename, cluster, size) ==
  LET high == u16_to_le_bytes((cluster \div 65536) % 65536)
      low == u16_to_le_bytes(cluster % 65536)
  IN << <<0, name_field(filename)>>, <<11, <<32>>>>,
        <<20, <<high[1]>>>>, <<21, <<high[2]>>>>,
        <<26, <<low[1]>>>>, <<27, <<low[2]>>>>,
        <<28, u32_to_le_bytes(size)>> >>

RECURSIVE store_all(_, _, _)
store_all(d, cursor, stores) ==
  IF stores = <<>> THEN [panic |-> FALSE, ok |-> TRUE, data |-> d]
  ELSE LET at == cursor + Head(stores)[1]
           bytes == Head(stores)[2]
       IN IF at + Len(bytes) > ByteLen(d) THEN [panic |-> TRUE, ok |-> FALSE, data |-> d]
          ELSE store_all(CopyFromSlice(d, at, bytes), cursor, Tail(stores))

\* Fat32Volume::write_dir_entry (volume.rs 206-231): the loop from iteration k.
\* Reading the marker at a cursor beyond the range panics.
RECURSIVE write_loop(_, _, _, _, _, _)
write_loop(d, cursor, k, filename, cluster, size) ==
  IF k >= 64 THEN [panic |-> FALSE, ok |-> FALSE, err |-> "Répertoire plein", data |-> d]
  ELSE IF cursor >= ByteLen(d) THEN [panic |-> TRUE, ok |-> FALSE, data |-> d]
  ELSE LET marker == d[cursor] IN
    IF marker = 0 \/ marker = 229
    THEN [slot |-> k] @@ store_all(d, cursor, entry_stores(filename, cluster, size))
    ELSE write_loop(d, cursor + 32, k + 1, filename, cluster, size)

write_dir_entry(d, dir_offset, filename, cluster, size) ==
  write_loop(d, dir_offset, 0, filename, cluster, size)

\* Fat32Volume::create_file (volume.rs 196-204).
create_file(d, bs, cur, filename, content, overflow_checks) ==
  LET a == allocate_cluster(d, bs, overflow_checks) IN
    IF a.panic THEN [panic |-> TRUE, ok |-> FALSE, data |-> a.data]
    ELSE IF ~a.found THEN [panic |-> FALSE, ok |-> FALSE, err |-> "Disque plein", data |-> d]
    ELSE LET free_cluster == a.cluster
             data_offset == offset_from_cluster(bs, free_cluster)
         IN IF BigLt(Big(ByteLen(d)), BigAdd(data_offset, Big(Len(content))))
            THEN [panic |-> TRUE, ok |-> FALSE, data |-> a.data, cluster |-> free_cluster]
            ELSE LET written == CopyFromSlice(a.data, ToInt(data_offset), content)
                     dir_offset == start_cursor(d, bs, cur)
                 IN [cluster |-> free_cluster]
                      @@ write_dir_entry(written, dir_offset, filename, free_cluster, Len(content))

\* Fat32Volume::get_info (volume.rs 45-59): the four numbers of the text
get_info(bs, cur) ==
  [sector_size |-> bs.bytes_per_sector, cluster_size |-> bs.sectors_per_cluster,
   root_cluster |-> bs.root_dir_cluster, current_cluster |-> cur]

(***************************************************************************)
(* Images                                                                  *)
(***************************************************************************)
\* tests::create_mock_volume (volume.rs 242-253), generalised: a range of
\* `len` bytes, every byte `fill(i)`, with the geometry g written at the
\* boot-sector offsets and the two signature bytes sig at 510 and 511.
ZeroFill(i) == 0

\* bytes that differ from their neighbours, all below 128
PatternFill(i) == (7 * i + 3) % 128

MockVolume(len, g, sig, patterned) ==
  LET fields == (11 :> (g.bps % 256)) @@ (12 :> (g.bps \div 256)) @@
                (13 :> g.spc) @@
                (14 :> (g.reserved % 256)) @@ (15 :> (g.reserved \div 256)) @@
                (16 :> g.fats) @@
                (36 :> (g.spf % 256)) @@ (37 :> ((g.spf \div 256) % 256)) @@
                (38 :> ((g.spf \div 65536) % 256)) @@ (39 :> (g.spf \div 16777216)) @@
                (44 :> (g.root % 256)) @@ (45 :> ((g.root \div 256) % 256)) @@
                (46 :> ((g.root \div 65536) % 256)) @@ (47 :> (g.root \div 16777216)) @@
                (510 :> sig[1]) @@ (511 :> sig[2])
  IN [i \in 0..(len - 1) |-> IF i \in DOMAIN fields THEN fields[i]
                              ELSE IF patterned THEN PatternFill(i) ELSE ZeroFill(i)]

\* The state of a process that holds no volume yet.
NoVolume == [opened |-> FALSE]
NoResult == [op |-> "none"]

(***************************************************************************)
(* Volumes: a formatted image with a root directory, an optional           *)
(* subdirectory and a file                                                 *)
(***************************************************************************)
\* The number of data clusters the image holds (clusters 2 .. ImageClusters+1).
ImageClusters == 3

\* 128-byte sectors, one sector per cluster (four directory slots), the FAT
\* (32 entries) at byte 512, the data region at byte 640.
VolumeGeometry == [bps |-> 128, spc |-> 1, reserved |-> 4, fats |-> 1, spf |-> 1, root |-> 2]

VolumeLen == 640 + ImageClusters * 128

\* A sequence padded with spaces to n bytes.
Padded(t, n) == [i \in 1..n |-> IF i <= Len(t) THEN t[i] ELSE 32]

\* A 32-byte directory record: the name fields, the attribute, the two
\* cluster halves (bytes 20..21 and 26..27) and the size (bytes 28..31).
Record(name, ext, attr, cluster, size) ==
  Padded(name, 8) \o Padded(ext, 3) \o <<attr>> \o <<0, 0, 0, 0, 0, 0, 0, 0>>
    \o u16_to_le_bytes(cluster \div 65536) \o <<0, 0, 0, 0>>
    \o u16_to_le_bytes(cluster % 65536) \o u32_to_le_bytes(size)

\* A record with its first byte replaced.
Marked(record, first) == <<first>> \o Tail(record)

EndSlot == [i \in 1..32 |-> 0]

\* live records
FileA == Record(<<65>>, <<84, 88, 84>>, 32, 4, 2)            \* A.TXT, cluster 4, "hi"
FileB == Record(<<66>>, <<84, 88, 84>>, 32, 4, 1)            \* B.TXT, cluster 4, "h"
EmptyC == Record(<<67>>, <<>>, 32, 0, 0)                     \* C, empty
EmptyD == Record(<<68>>, <<>>, 32, 0, 0)                     \* D, empty
EmptyE == Record(<<69>>, <<>>, 32, 0, 0)                     \* E, empty
DirSub == Record(<<83, 85, 66>>, <<>>, 16, 3, 0)             \* SUB, cluster 3
DirDot == Record(<<46>>, <<>>, 16, 3, 0)                     \* .  of SUB
DirDotDot == Record(<<46, 46>>, <<>>, 16, 0, 0)              \* .. of SUB: cluster 0
\* a volume label spelled like A.TXT
LabelA == Record(<<65>>, <<84, 88, 84>>, 8, 0, 0)
\* a deleted record, and a terminator followed by stale bytes
Deleted == Marked(FileB, 229)
StaleEnd == Marked(EmptyC, 0)

RECURSIVE Flatten(_)
Flatten(slots) == IF slots = <<>> THEN <<>> ELSE Head(slots) \o Flatten(Tail(slots))

\* The FAT entries of clusters 0..31: the two reserved entries, the root's
\* end-of-chain mark, then `used` for clusters 3.. (TRUE: end of chain,
\* FALSE: free) and `tail` for every entry past `used`.
FatBytes(used, tail) ==
  Flatten([c \in 1..32 |->
     IF c = 1 THEN <<248, 255, 255, 15>>
     ELSE IF c <= 3 THEN u32_to_le_bytes(EOC)
     ELSE IF c - 3 <= Len(used)
          THEN (IF used[c - 3] THEN u32_to_le_bytes(EOC) ELSE u32_to_le_bytes(0))
          ELSE (IF tail THEN u32_to_le_bytes(EOC) ELSE u32_to_le_bytes(0))])

\* The image of a volume: v.clusters gives the bytes at the start of
\* clusters 2, 3, ...; v.used and v.tail give the FAT, v.root_entry, when
\* given, the FAT entry of cluster 2, and v.root, when given, the root
\* directory's cluster at offset 44.
VolumeImage(v) ==
  LET boot == MockVolume(VolumeLen,
                         IF "root" \in DOMAIN v THEN [VolumeGeometry EXCEPT !.root = v.root]
                         ELSE VolumeGeometry,
                         <<85, 170>>, FALSE)
      fat == FatBytes(v.used, v.tail)
  IN [i \in 0..(VolumeLen - 1) |->
        IF i >= 520 /\ i < 524 /\ "root_entry" \in DOMAIN v
        THEN u32_to_le_bytes(v.root_entry)[i - 519]
        ELSE IF i >= 512 /\ i < 640 THEN fat[i - 511]
        ELSE IF i >= 640
             THEN LET c == ((i - 640) \div 128) + 1
                      at == ((i - 640) % 128) + 1
                  IN IF c <= Len(v.clusters) /\ at <= Len(v.clusters[c])
                     THEN v.clusters[c][at] ELSE 0
             ELSE boot[i]]

SubDirectory == Flatten(<<DirDot, DirDotDot, EndSlot, EndSlot>>)

\* SUB at cluster 2, for a volume whose root directory is cluster 3
DirSubTwo == Record(<<83, 85, 66>>, <<>>, 16, 2, 0)
DirDotTwo == Record(<<46>>, <<>>, 16, 2, 0)
SubDirectoryTwo == Flatten(<<DirDotTwo, DirDotDot, EndSlot, EndSlot>>)

\* The volumes a session starts from.
Volumes ==
  { \* freshly formatted: an empty root, every cluster free
    [clusters |-> <<>>, used |-> <<FALSE, FALSE>>, tail |-> TRUE],
    \* a file and a subdirectory: no free cluster in the image, with and
    \* without free FAT entries past the image's last cluster
    [clusters |-> <<Flatten(<<FileA, DirSub, EndSlot, EndSlot>>), SubDirectory, <<104, 105>>>>,
     used |-> <<TRUE, TRUE>>, tail |-> TRUE],
    [clusters |-> <<Flatten(<<FileA, DirSub, EndSlot, EndSlot>>), SubDirectory, <<104, 105>>>>,
     used |-> <<TRUE, TRUE>>, tail |-> FALSE],
    \* a deleted record before the live ones; cluster 3 free, and the FAT
    \* entry of the root's cluster reads zero
    [clusters |-> <<Flatten(<<Deleted, FileA, EmptyC, EndSlot>>), <<>>, <<104, 105>>>>,
     used |-> <<FALSE, TRUE>>, tail |-> TRUE, root_entry |-> 0],
    \* a terminator with stale bytes, and stale records after it; the FAT
    \* entry of the root's cluster reads zero, every entry from 3 on is used
    [clusters |-> <<Flatten(<<FileA, StaleEnd, DirSub, FileB>>), SubDirectory, <<104, 105>>>>,
     used |-> <<TRUE, TRUE>>, tail |-> TRUE, root_entry |-> 0],
    \* a root directory whose cluster is full; cluster 3 free
    [clusters |-> <<Flatten(<<FileA, EmptyC, EmptyD, EmptyE>>), <<>>, <<104, 105>>>>,
     used |-> <<FALSE, TRUE>>, tail |-> TRUE],
    \* the root directory at cluster 3, holding SUB at cluster 2 whose ".."
    \* record has start cluster 0; no free cluster
    [clusters |-> <<SubDirectoryTwo, Flatten(<<DirSubTwo, FileA, EndSlot, EndSlot>>),
                    <<104, 105>>>>,
     used |-> <<TRUE, TRUE>>, tail |-> TRUE, root |-> 3],
    \* a volume label named like the file that follows it; no free cluster
    [clusters |-> <<Flatten(<<LabelA, FileA, EndSlot, EndSlot>>), <<>>, <<104, 105>>>>,
     used |-> <<TRUE, TRUE>>, tail |-> TRUE] }

\* What the shell passes (main.rs 215-241): names and contents.
\* "sub", "..", "a.txt"
DirNames == {<<115, 117, 98>>, <<46, 46>>, <<97, 46, 116, 120, 116>>}
\* "a.txt", "n.txt", "sub", "b.txt"
FileNames == {<<97, 46, 116, 120, 116>>, <<110, 46, 116, 120, 116>>, <<115, 117, 98>>,
              <<98, 46, 116, 120, 116>>}
\* "n.txt", "a.txt"
NewNames == {<<110, 46, 116, 120, 116>>, <<97, 46, 116, 120, 116>>}

\* The longest content a call passes, and the bytes it is made of: 'h' and
\* 0xE5 (the first byte of many UTF-8 encoded characters).
MaxContentLen == 1
ContentBytes == {104, 229}
Contents == UNION {[1..n -> ContentBytes] : n \in 0..MaxContentLen}

(***************************************************************************)
(* Spec: a session of the shell on an opened volume (main.rs 195-245)      *)
(***************************************************************************)
Init ==
  /\ \E v \in Volumes : data = VolumeImage(v)
  /\ boot_sector = Fat32Volume_new(data).boot_sector
  /\ current_cluster = Fat32Volume_new(data).current_cluster
  /\ result = NoResult

\* a panic ends the process (main.rs 99-108)
Running == ~("panic" \in DOMAIN result /\ result.panic)

\* "info"
Info ==
  /\ Running
  /\ result' = [op |-> "get_info", info |-> get_info(boot_sector, current_cluster)]
  /\ UNCHANGED <<data, boot_sector, current_cluster>>

\* "ls" leaving the session in the root directory
ListCurrent_moves_to_root ==
  /\ Running
  /\ result' = [op |-> "list_current", dir |-> current_cluster,
                files |-> list_directory(data, boot_sector, current_cluster)]
  /\ current_cluster' = boot_sector.root_dir_cluster
  /\ UNCHANGED <<data, boot_sector>>

\* "ls".  `dir` records the directory the call scanned.
ListCurrent ==
  /\ Running
  /\ result' = [op |-> "list_current", dir |-> current_cluster,
                files |-> list_directory(data, boot_sector, current_cluster)]
  /\ UNCHANGED <<data, boot_sector, current_cluster>>

\* "cd <dirname>" entering the matched record's cluster even when the record
\* is no directory
ChangeDirectory_enters_any_match(dirname) ==
  /\ Running
  /\ \E r \in {change_directory(data, boot_sector, current_cluster, dirname)} :
       /\ result' = [op |-> "change_directory", dir |-> current_cluster,
                     dirname |-> dirname] @@ r
       /\ current_cluster' =
            IF r.ok THEN r.cluster
            ELSE IF "slot" \in DOMAIN r
                 THEN entry_cluster(EntryAt(data, start_cursor(data, boot_sector, current_cluster)
                                                    + 32 * r.slot))
                 ELSE current_cluster
  /\ UNCHANGED <<data, boot_sector>>

\* "cd <dirname>"
ChangeDirectory(dirname) ==
  /\ Running
  /\ \E r \in {change_directory(data, boot_sector, current_cluster, dirname)} :
       /\ result' = [op |-> "change_directory", dir |-> current_cluster,
                     dirname |-> dirname] @@ r
       /\ current_cluster' = IF r.ok THEN r.cluster ELSE current_cluster
  /\ UNCHANGED <<data, boot_sector>>

\* "cat <filename>"
ReadFile(filename) ==
  /\ Running
  /\ result' = [op |-> "read_file", dir |-> current_cluster, filename |-> filename]
                 @@ read_file(data, boot_sector, current_cluster, filename)
  /\ UNCHANGED <<data, boot_sector, current_cluster>>

\* "touch <filename> <text>"
CreateFile(filename, content) ==
  /\ Running
  /\ \E checks \in (IF Len(fat_bytes_exact(boot_sector)) > 4 THEN BOOLEAN ELSE {FALSE}) :
       \E r \in {create_file(data, boot_sector, current_cluster, filename, content, checks)} :
         /\ result' = [op |-> "create_file", filename |-> filename, content |-> content,
                       panic |-> r.panic, ok |-> r.ok]
                        @@ (IF "err" \in DOMAIN r THEN [err |-> r.err] ELSE <<>>)
                        @@ (IF "cluster" \in DOMAIN r THEN [cluster |-> r.cluster] ELSE <<>>)
                        @@ (IF "slot" \in DOMAIN r THEN [slot |-> r.slot] ELSE <<>>)
         /\ data' = r.data
  /\ UNCHANGED <<boot_sector, current_cluster>>

Next ==
  \/ Info
  \/ ListCurrent
  \/ \E dirname \in DirNames : ChangeDirectory(dirname)
  \/ \E filename \in FileNames : ReadFile(filename)
  \/ \E filename \in NewNames, content \in Contents : CreateFile(filename, content)

Spec == Init /\ [][Next]_vars

(***************************************************************************)
(* SpecOpen: an image is opened by one of the three parsers                *)
(***************************************************************************)
OpenGeometries ==
  [bps : {512, 4660}, spc : {1, 8}, reserved : {32, 288}, fats : {1, 2},
   spf : {100, 16909060}, root : {2, 196613}]

Signatures == {<<85, 170>>, <<0, 0>>, <<85, 0>>, <<0, 170>>, <<170, 85>>}

InitOpen ==
  /\ \E g \in OpenGeometries, sig \in Signatures, patterned \in BOOLEAN :
       data = MockVolume(512, g, sig, patterned)
  /\ boot_sector = NoVolume
  /\ current_cluster = 0
  /\ result = NoResult

\* main (main.rs 186-193): Fat32Volume::new(&mut disk_memory)
OpenVolume ==
  /\ result.op = "none"
  /\ LET r == Fat32Volume_new(data) IN
       IF r.panic
       THEN /\ result' = [op |-> "Fat32Volume::new", ok |-> FALSE, panic |-> TRUE]
            /\ UNCHANGED <<data, boot_sector, current_cluster>>
       ELSE /\ boot_sector' = r.boot_sector
            /\ current_cluster' = r.current_cluster
            /\ result' = [op |-> "Fat32Volume::new", ok |-> TRUE, panic |-> FALSE]
            /\ UNCHANGED data

\* BiosParameterBlock::new(&mut file)
OpenBpb ==
  /\ result.op = "none"
  /\ result' = [op |-> "BiosParameterBlock::new"] @@ BiosParameterBlock_new(data)
  /\ UNCHANGED <<data, boot_sector, current_cluster>>

\* Fat32Image::new(path)
OpenImage ==
  /\ result.op = "none"
  /\ LET r == Fat32Image_new(data) IN
       /\ result' = [op |-> "Fat32Image::new", ok |-> r.ok]
       /\ boot_sector' = IF r.ok THEN r.boot_sector ELSE boot_sector
       /\ current_cluster' = IF r.ok THEN r.boot_sector.root_dir_cluster ELSE current_cluster
       /\ UNCHANGED data

NextOpen == OpenVolume \/ OpenBpb \/ OpenImage

SpecOpen == InitOpen /\ [][NextOpen]_vars

(***************************************************************************)
(* SpecOffset: offset_from_cluster on an opened volume, over geometries    *)
(* up to the widest fields and clusters up to the largest modelled value   *)
(***************************************************************************)
\* the largest integer TLC represents
MaxInt == 32767 * 65536 + 65535

OffsetGeometries ==
  [bps : {0, 512, 65535}, spc : {0, 1, 255}, reserved : {32, 65535},
   fats : {2, 255}, spf : {100, MaxInt}, root : {2}]

OffsetClusters == {0, 1, 2, 3, 4, 65536, MaxInt - 1, MaxInt}

InitOffset ==
  /\ \E g \in OffsetGeometries : data = MockVolume(512, g, <<85, 170>>, FALSE)
  /\ boot_sector = Fat32Volume_new(data).boot_sector
  /\ current_cluster = Fat32Volume_new(data).current_cluster
  /\ result = NoResult

\* self.offset_from_cluster(cluster) on the Fat32Volume
OffsetFromCluster(cluster) ==
  /\ result' = [op |-> "offset_from_cluster", cluster |-> cluster, panic |-> FALSE,
                offset |-> offset_from_cluster(boot_sector, cluster),
                wrapped |-> Overflows64(offset_exact(boot_sector, cluster))]
  /\ UNCHANGED <<data, boot_sector, current_cluster>>

\* image.offset_from_cluster(cluster) on the Fat32Image of the same geometry
ImageOffsetFromCluster(cluster, overflow_checks) ==
  /\ result' = [op |-> "Fat32Image::offset_from_cluster", cluster |-> cluster]
                 @@ Fat32Image_offset_from_cluster(ImageBootSector(boot_sector),
                                                   cluster, overflow_checks)
  /\ UNCHANGED <<data, boot_sector, current_cluster>>

NextOffset ==
  \/ \E c \in OffsetClusters : OffsetFromCluster(c)
  \/ \E c \in OffsetClusters, checks \in BOOLEAN : ImageOffsetFromCluster(c, checks)

SpecOffset == InitOffset /\ [][NextOffset]_vars

(***************************************************************************)
(* Properties of opening (SpecOpen)                                        *)
(***************************************************************************)
\* the value of a little-endian byte sequence
RECURSIVE LittleEndian(_)
LittleEndian(bytes) == IF bytes = <<>> THEN 0 ELSE Head(bytes) + 256 * LittleEndian(Tail(bytes))

BadSignature == data[510] # 85 \/ data[511] # 170

\* C3: opening an image whose byte 510 is not 0x55 or whose byte 511 is not
\* 0xAA fails, and produces neither a volume nor a geometry.
C3_BadSignatureIsRejected ==
  (result.op \in {"Fat32Volume::new", "BiosParameterBlock::new"} /\ BadSignature)
    => (~result.ok /\ boot_sector = NoVolume)

\* C4: the geometry an opened image yields is the little-endian value of
\* bytes 11..12, 13, 14..15, 16, 36..39 and 44..47 of the image.
C4_GeometryIsLittleEndianDecoding ==
  /\ (result.op = "Fat32Volume::new" /\ result.ok) =>
       /\ boot_sector.bytes_per_sector = LittleEndian(Slice(data, 11, 13))
       /\ boot_sector.sectors_per_cluster = data[13]
       /\ boot_sector.reserved_sectors = LittleEndian(Slice(data, 14, 16))
       /\ boot_sector.number_of_fats = data[16]
       /\ boot_sector.sectors_per_fat_32 = LittleEndian(Slice(data, 36, 40))
       /\ boot_sector.root_dir_cluster = LittleEndian(Slice(data, 44, 48))
  /\ (result.op = "Fat32Image::new" /\ result.ok) =>
       /\ boot_sector.bytes_per_sector = LittleEndian(Slice(data, 11, 13))
       /\ boot_sector.sectors_per_cluster = data[13]
       /\ boot_sector.reserved_sector = LittleEndian(Slice(data, 14, 16))
       /\ boot_sector.number_of_fats = data[16]
       /\ boot_sector.sectors_per_fat = LittleEndian(Slice(data, 36, 40))
       /\ boot_sector.root_dir_cluster = LittleEndian(Slice(data, 44, 48))
  /\ (result.op = "BiosParameterBlock::new" /\ result.ok) =>
       /\ result.bpb.bytes_per_sector = LittleEndian(Slice(data, 11, 13))
       /\ result.bpb.sectors_per_cluster = data[13]
       /\ result.bpb.reserved_sectors = LittleEndian(Slice(data, 14, 16))
       /\ result.bpb.num_fats = data[16]
       /\ result.bpb.fat_size_32 = LittleEndian(Slice(data, 36, 40))
       /\ result.bpb.root_cluster = LittleEndian(Slice(data, 44, 48))

\* a volume opened from an image whose multi-byte fields have distinct bytes
C4_Witness ==
  /\ result.op = "Fat32Volume::new" /\ result.ok
  /\ boot_sector.bytes_per_sector = 4660
  /\ boot_sector.reserved_sectors = 288
  /\ boot_sector.sectors_per_fat_32 = 16909060
  /\ boot_sector.root_dir_cluster = 196613

(***************************************************************************)
(* Properties of offset_from_cluster (SpecOffset)                          *)
(***************************************************************************)
\* (reserved + fats * spf) * bps, exactly
FirstDataByte(bs) ==
  BigMul(BigAdd(Big(bs.reserved_sectors),
                BigMul(Big(bs.number_of_fats), Big(bs.sectors_per_fat_32))),
         Big(bs.bytes_per_sector))

\* C5: for a cluster c >= 2 the offset is
\* (reserved + fats * spf + (c - 2) * spc) * bps; with 512-byte sectors, one
\* sector per cluster, 32 reserved sectors and 2 FATs of 100 sectors the
\* offset of cluster 2 is 118784.
C5_OffsetFormula ==
  (result.op = "offset_from_cluster" /\ result.cluster >= 2) =>
    /\ result.offset =
         BigAdd(FirstDataByte(boot_sector),
                BigMul(BigMul(Big(result.cluster - 2), Big(boot_sector.sectors_per_cluster)),
                       Big(boot_sector.bytes_per_sector)))
    /\ ( /\ boot_sector.bytes_per_sector = 512 /\ boot_sector.sectors_per_cluster = 1
         /\ boot_sector.reserved_sectors = 32 /\ boot_sector.number_of_fats = 2
         /\ boot_sector.sectors_per_fat_32 = 100 /\ result.cluster = 2 )
       => ToInt(result.offset) = 118784

\* the scenario of tests::test_offset_calculation
C5_Witness ==
  /\ result.op = "offset_from_cluster" /\ result.cluster = 2
  /\ boot_sector.bytes_per_sector = 512 /\ boot_sector.sectors_per_cluster = 1
  /\ boot_sector.reserved_sectors = 32 /\ boot_sector.number_of_fats = 2
  /\ boot_sector.sectors_per_fat_32 = 100
  /\ result.offset = Big(118784)

\* C6: offset_from_cluster never underflows: for the clusters 0 and 1 it
\* returns the offset of cluster 2, whatever the geometry.
C6_ClustersBelowTwoAreClamped ==
  (result.op \in {"offset_from_cluster", "Fat32Image::offset_from_cluster"}
     /\ result.cluster < 2)
    => (~result.panic /\ result.offset = FirstDataByte(boot_sector))

\* C7: with nonzero bytes-per-sector and sectors-per-cluster the offset is
\* strictly increasing in the cluster number from cluster 2 on, and the
\* 64-bit result never wraps around.
C7_OffsetStrictlyIncreasing ==
  (result.op = "offset_from_cluster" /\ result.cluster >= 2
     /\ boot_sector.bytes_per_sector # 0 /\ boot_sector.sectors_per_cluster # 0)
    => /\ ~result.wrapped
       /\ \A c \in OffsetClusters :
            /\ c > result.cluster => BigLt(result.offset, offset_from_cluster(boot_sector, c))
            /\ (c >= 2 /\ c < result.cluster)
                 => BigLt(offset_from_cluster(boot_sector, c), result.offset)

\* the largest cluster on the widest geometry: an offset beyond 2^48
C7_Witness ==
  /\ result.op = "offset_from_cluster" /\ result.cluster = MaxInt
  /\ boot_sector.bytes_per_sector = 65535 /\ boot_sector.sectors_per_cluster = 255
  /\ boot_sector.sectors_per_fat_32 = MaxInt /\ boot_sector.number_of_fats = 255
  /\ Len(result.offset) = 7 /\ ~result.wrapped

(***************************************************************************)
(* Fat32Image: the file-based reader (fat32_reader/src/fat32.rs)           *)
(***************************************************************************)
\* format_name (fat32.rs 13-24), on the 32-byte record it is taken from
format_name(entry) ==
  LET name_str == entry_name(entry)
      ext_str == entry_ext(entry)
  IN IF ext_str = <<>> THEN to_lowercase(name_str) ELSE to_lowercase(dotted(name_str, ext_str))

\* seek(SeekFrom::Start(offset)): the position of the next read, the end of
\* the file standing for every position at or beyond it (each read fails there)
seek(file, offset) == IF BigLt(Big(ByteLen(file)), offset) THEN ByteLen(file) ELSE ToInt(offset)

\* lseek refuses an offset that is negative as a signed 64-bit number
seek_fails(offset) == Len(offset) = 8 /\ offset[8] >= 128

\* find_sub_directory with the test of the directory attribute left out
RECURSIVE find_loop_any_entry(_, _, _, _)
find_loop_any_entry(file, pos, k, dirname) ==
  IF k >= 100 THEN [panic |-> FALSE, ok |-> TRUE, found |-> FALSE]
  ELSE IF pos + 32 > ByteLen(file) THEN [panic |-> FALSE, ok |-> FALSE, err |-> "UnexpectedEof"]
  ELSE LET entry_bytes == EntryAt(file, pos) IN
    IF entry_bytes[0] = 0 THEN [panic |-> FALSE, ok |-> TRUE, found |-> FALSE]
    ELSE IF entry_bytes[0] = 229 \/ entry_bytes[11] = 15
         THEN find_loop_any_entry(file, pos + 32, k + 1, dirname)
    ELSE IF format_name(entry_bytes) = to_lowercase(dirname)
         THEN LET target_cluster == entry_cluster(entry_bytes)
              IN [panic |-> FALSE, ok |-> TRUE, found |-> TRUE, slot |-> k,
                  cluster |-> IF target_cluster = 0 THEN 2 ELSE target_cluster]
    ELSE find_loop_any_entry(file, pos + 32, k + 1, dirname)

\* Fat32Image::find_sub_directory (fat32.rs 141-169): the loop from iteration
\* k, the file position at pos.  read_exact fails when fewer than 32 bytes
\* remain.  Ok(Some(cluster)) is found = TRUE, Ok(None) is found = FALSE.
RECURSIVE find_loop(_, _, _, _)
find_loop(file, pos, k, dirname) ==
  IF k >= 100 THEN [panic |-> FALSE, ok |-> TRUE, found |-> FALSE]
  ELSE IF pos + 32 > ByteLen(file) THEN [panic |-> FALSE, ok |-> FALSE, err |-> "UnexpectedEof"]
  ELSE LET entry_bytes == EntryAt(file, pos) IN
    IF entry_bytes[0] = 0 THEN [panic |-> FALSE, ok |-> TRUE, found |-> FALSE]
    ELSE IF entry_bytes[0] = 229 \/ entry_bytes[11] = 15
         THEN find_loop(file, pos + 32, k + 1, dirname)
    ELSE IF format_name(entry_bytes) = to_lowercase(dirname)
         THEN IF attr_directory(entry_bytes[11])
              THEN LET target_cluster == entry_cluster(entry_bytes)
                   IN [panic |-> FALSE, ok |-> TRUE, found |-> TRUE, slot |-> k,
                       cluster |-> IF target_cluster = 0 THEN 2 ELSE target_cluster]
              ELSE [panic |-> FALSE, ok |-> TRUE, found |-> FALSE, slot |-> k]
    ELSE find_loop(file, pos + 32, k + 1, dirname)

find_sub_directory(file, bs, cur, dirname, overflow_checks) ==
  LET o == Fat32Image_offset_from_cluster(bs, cur, overflow_checks)
  IN IF o.panic THEN [panic |-> TRUE, ok |-> FALSE]
     ELSE IF seek_fails(o.offset) THEN [panic |-> FALSE, ok |-> FALSE, err |-> "InvalidInput"]
     ELSE find_loop(file, seek(file, o.offset), 0, dirname)

\* Fat32Image::list_directory (fat32.rs 64-94): the loop from iteration k,
\* with the lines printed so far; a line is its four fields and the index of
\* the slot it was read from.
RECURSIVE image_list_loop(_, _, _, _)
image_list_loop(file, pos, k, printed) ==
  IF k >= 100 THEN [panic |-> FALSE, ok |-> TRUE, printed |-> printed]
  ELSE IF pos + 32 > ByteLen(file)
       THEN [panic |-> FALSE, ok |-> FALSE, err |-> "UnexpectedEof", printed |-> printed]
  ELSE LET entry_bytes == EntryAt(file, pos) IN
    IF entry_bytes[0] = 0 THEN [panic |-> FALSE, ok |-> TRUE, printed |-> printed]
    ELSE IF entry_bytes[0] = 229 \/ entry_bytes[11] = 15
         THEN image_list_loop(file, pos + 32, k + 1, printed)
    ELSE image_list_loop(file, pos + 32, k + 1,
           Append(printed, [is_dir |-> attr_directory(entry_bytes[11]),
                            pretty_name |-> format_name(entry_bytes),
                            size |-> entry_size(entry_bytes),
                            full_cluster |-> entry_cluster(entry_bytes), slot |-> k]))

Fat32Image_list_directory(file, bs, cluster, overflow_checks) ==
  LET o == Fat32Image_offset_from_cluster(bs, cluster, overflow_checks)
  IN IF o.panic THEN [panic |-> TRUE, ok |-> FALSE]
     ELSE IF seek_fails(o.offset)
          THEN [panic |-> FALSE, ok |-> FALSE, err |-> "InvalidInput", printed |-> <<>>]
     ELSE image_list_loop(file, seek(file, o.offset), 0, <<>>)

\* Fat32Image::cat_file (fat32.rs 96-139): the loop from iteration k.
RECURSIVE cat_loop(_, _, _, _, _, _)
cat_loop(file, bs, pos, k, filename, overflow_checks) ==
  IF k >= 100 THEN [panic |-> FALSE, ok |-> TRUE, printed |-> "introuvable"]
  ELSE IF pos + 32 > ByteLen(file) THEN [panic |-> FALSE, ok |-> FALSE, err |-> "UnexpectedEof"]
  ELSE LET entry_bytes == EntryAt(file, pos) IN
    IF entry_bytes[0] = 0 THEN [panic |-> FALSE, ok |-> TRUE, printed |-> "introuvable"]
    ELSE IF entry_bytes[0] = 229 \/ entry_bytes[11] = 15
         THEN cat_loop(file, bs, pos + 32, k + 1, filename, overflow_checks)
    ELSE IF format_name(entry_bytes) = to_lowercase(filename)
         THEN IF attr_directory(entry_bytes[11])
              THEN [panic |-> FALSE, ok |-> TRUE, printed |-> "est un dossier", slot |-> k]
              ELSE LET size == entry_size(entry_bytes)
                       o == Fat32Image_offset_from_cluster(bs, entry_cluster(entry_bytes),
                                                           overflow_checks)
                   IN IF o.panic THEN [panic |-> TRUE, ok |-> FALSE]
                      ELSE IF seek_fails(o.offset)
                           THEN [panic |-> FALSE, ok |-> FALSE, err |-> "InvalidInput"]
                      ELSE IF BigLt(Big(ByteLen(file)), BigAdd(o.offset, Big(size)))
                           THEN [panic |-> FALSE, ok |-> FALSE, err |-> "UnexpectedEof"]
                      ELSE [panic |-> FALSE, ok |-> TRUE, printed |-> "Contenu", slot |-> k,
                            text |-> from_utf8_lossy(Slice(file, ToInt(o.offset),
                                                           ToInt(o.offset) + size))]
    ELSE cat_loop(file, bs, pos + 32, k + 1, filename, overflow_checks)

cat_file(file, bs, cur, filename, overflow_checks) ==
  LET o == Fat32Image_offset_from_cluster(bs, cur, overflow_checks)
  IN IF o.panic THEN [panic |-> TRUE, ok |-> FALSE]
     ELSE IF seek_fails(o.offset) THEN [panic |-> FALSE, ok |-> FALSE, err |-> "InvalidInput"]
     ELSE cat_loop(file, bs, seek(file, o.offset), 0, filename, overflow_checks)

\* .filter(|s| !s.is_empty())
RECURSIVE filter_not_empty(_)
filter_not_empty(parts) ==
  IF parts = <<>> THEN <<>>
  ELSE IF Head(parts) = <<>> THEN filter_not_empty(Tail(parts))
  ELSE <<Head(parts)>> \o filter_not_empty(Tail(parts))

\* The walk of resolve_path (fat32.rs 181-191) over the parent directories
\* still to enter; `walked` counts the find_sub_directory calls made.  The
\* NotFound error carries "Dossier introuvable : {dir_name}".
RECURSIVE resolve_walk(_, _, _, _, _, _, _)
resolve_walk(file, bs, cur, parent_dirs, filename, overflow_checks, walked) ==
  IF parent_dirs = <<>>
  THEN [panic |-> FALSE, ok |-> TRUE, cluster |-> cur, name |-> <<filename>>, walked |-> walked]
  ELSE LET dir_name == Head(parent_dirs)
           f == find_sub_directory(file, bs, cur, dir_name, overflow_checks)
       IN IF f.panic THEN [panic |-> TRUE, ok |-> FALSE]
          ELSE IF ~f.ok THEN [panic |-> FALSE, ok |-> FALSE, kind |-> f.err,
                              walked |-> walked + 1]
          ELSE IF f.found
               THEN resolve_walk(file, bs, f.cluster, Tail(parent_dirs), filename,
                                 overflow_checks, walked + 1)
          ELSE [panic |-> FALSE, ok |-> FALSE, kind |-> "NotFound",
                message |-> <<"Dossier introuvable : ", dir_name>>, walked |-> walked + 1]

\* resolve_path keeping the empty segments of the split
resolve_path_keeps_empty_segments(file, bs, start_cluster, path, overflow_checks) ==
  LET rooted == path # <<>> /\ Head(path) = 47
      cur == IF rooted THEN bs.root_dir_cluster ELSE start_cluster
      path_to_process == IF rooted THEN Tail(path) ELSE path
      parts == split(path_to_process, 47)
  IN IF parts = <<>>
     THEN [panic |-> FALSE, ok |-> TRUE, cluster |-> cur, name |-> <<>>, walked |-> 0]
     ELSE resolve_walk(file, bs, cur, SubSeq(parts, 1, Len(parts) - 1), parts[Len(parts)],
                       overflow_checks, 0)

\* Fat32Image::resolve_path (fat32.rs 171-194).  The Option<String> of the
\* result is a sequence of at most one name.
resolve_path(file, bs, start_cluster, path, overflow_checks) ==
  LET rooted == path # <<>> /\ Head(path) = 47
      cur == IF rooted THEN bs.root_dir_cluster ELSE start_cluster
      path_to_process == IF rooted THEN Tail(path) ELSE path
      parts == filter_not_empty(split(path_to_process, 47))
  IN IF parts = <<>>
     THEN [panic |-> FALSE, ok |-> TRUE, cluster |-> cur, name |-> <<>>, walked |-> 0]
     ELSE resolve_walk(file, bs, cur, SubSeq(parts, 1, Len(parts) - 1), parts[Len(parts)],
                       overflow_checks, 0)

(***************************************************************************)
(* SpecImage: a session of the file-based reader on an image               *)
(* (fat32_reader/src/main.rs 299-417)                                      *)
(***************************************************************************)
FileTxt == Record(<<70, 73, 76, 69>>, <<84, 88, 84>>, 32, 4, 2)   \* FILE.TXT, cluster 4
DirBad == Record(<<66, 65, 68>>, <<>>, 16, 1, 0)                 \* BAD, a directory at cluster 1

\* The volumes of Spec, and one whose subdirectory holds a file and whose
\* root holds a directory record pointing at the reserved cluster 1.
ImageVolumes ==
  Volumes \cup
  { [clusters |-> <<Flatten(<<FileA, DirSub, DirBad, EndSlot>>),
                    Flatten(<<DirDot, DirDotDot, FileTxt, EndSlot>>), <<104, 105>>>>,
     used |-> <<TRUE, TRUE>>, tail |-> TRUE] }

\* "/sub/file.txt", "sub/file.txt", "//SUB//file.txt", "/a.txt/file.txt",
\* "/nosuch/sub/file.txt", "/sub/nosuch/x", "/sub/../a.txt", "bad/x", "sub",
\* "..", "/", "", "/sub//file.txt/", "sub/", "//"
Paths ==
  { <<47, 115, 117, 98, 47, 102, 105, 108, 101, 46, 116, 120, 116>>,
    <<115, 117, 98, 47, 102, 105, 108, 101, 46, 116, 120, 116>>,
    <<47, 47, 83, 85, 66, 47, 47, 102, 105, 108, 101, 46, 116, 120, 116>>,
    <<47, 97, 46, 116, 120, 116, 47, 102, 105, 108, 101, 46, 116, 120, 116>>,
    <<47, 110, 111, 115, 117, 99, 104, 47, 115, 117, 98, 47, 102, 105, 108, 101, 46, 116, 120, 116>>,
    <<47, 115, 117, 98, 47, 110, 111, 115, 117, 99, 104, 47, 120>>,
    <<47, 115, 117, 98, 47, 46, 46, 47, 97, 46, 116, 120, 116>>,
    <<98, 97, 100, 47, 120>>,
    <<115, 117, 98>>,
    <<46, 46>>,
    <<47>>,
    <<>>,
    <<47, 115, 117, 98, 47, 47, 102, 105, 108, 101, 46, 116, 120, 116, 47>>,
    <<115, 117, 98, 47>>,
    <<47, 47>> }

InitImage ==
  /\ \E v \in ImageVolumes : data = VolumeImage(v)
  /\ boot_sector = Fat32Image_new(data).boot_sector
  /\ current_cluster = Fat32Image_new(data).boot_sector.root_dir_cluster
  /\ result = NoResult

\* a panic, or an io error that main returns with `?`, ends the process
ImageRunning ==
  /\ ~("panic" \in DOMAIN result /\ result.panic)
  /\ ~("exited" \in DOMAIN result /\ result.exited)

\* The lookup of the leaf that "ls <path>" and "cd <path>" make after a
\* resolve_path that returned Some(name); `none` stands for no lookup.
leaf_lookup(file, bs, resolved, overflow_checks) ==
  IF ~resolved.panic /\ resolved.ok /\ resolved.name # <<>>
  THEN find_sub_directory(file, bs, resolved.cluster, resolved.name[1], overflow_checks)
  ELSE [panic |-> FALSE, ok |-> TRUE, found |-> FALSE, none |-> TRUE]

\* "ls [path]" (main.rs 331-356)
ImageLs(path, overflow_checks) ==
  /\ ImageRunning
  /\ \E r \in {resolve_path(data, boot_sector, current_cluster, path, overflow_checks)} :
     \E f \in {leaf_lookup(data, boot_sector, r, overflow_checks)} :
       LET target == IF r.panic \/ ~r.ok \/ f.panic \/ ~f.ok THEN <<>>
                     ELSE IF r.name = <<>> THEN <<r.cluster>>
                     ELSE IF f.found THEN <<f.cluster>> ELSE <<>>
           listing == IF target = <<>> THEN [panic |-> FALSE, ok |-> TRUE, none |-> TRUE]
                      ELSE Fat32Image_list_directory(data, boot_sector, target[1],
                                                     overflow_checks)
       IN result' = [op |-> "ls", path |-> path, start |-> current_cluster,
                     resolved |-> r, leaf |-> f, listing |-> listing,
                     panic |-> r.panic \/ f.panic \/ listing.panic,
                     exited |-> ~f.panic /\ ~f.ok]
  /\ UNCHANGED <<data, boot_sector, current_cluster>>

\* "cat <path>" (main.rs 357-374)
ImageCat(path, overflow_checks) ==
  /\ ImageRunning
  /\ \E r \in {resolve_path(data, boot_sector, current_cluster, path, overflow_checks)} :
       LET shown == IF ~r.panic /\ r.ok /\ r.name # <<>>
                    THEN cat_file(data, boot_sector, r.cluster, r.name[1], overflow_checks)
                    ELSE [panic |-> FALSE, ok |-> TRUE, none |-> TRUE]
       IN result' = [op |-> "cat", path |-> path, start |-> current_cluster,
                     resolved |-> r, shown |-> shown,
                     panic |-> r.panic \/ shown.panic, exited |-> FALSE]
  /\ UNCHANGED <<data, boot_sector, current_cluster>>

\* "cd <path>" (main.rs 375-403)
ImageCd(path, overflow_checks) ==
  /\ ImageRunning
  /\ \E r \in {resolve_path(data, boot_sector, current_cluster, path, overflow_checks)} :
     \E f \in {leaf_lookup(data, boot_sector, r, overflow_checks)} :
       /\ result' = [op |-> "cd", path |-> path, start |-> current_cluster,
                     resolved |-> r, leaf |-> f,
                     panic |-> r.panic \/ f.panic, exited |-> ~f.panic /\ ~f.ok]
       /\ current_cluster' =
            IF r.panic \/ ~r.ok \/ f.panic \/ ~f.ok THEN current_cluster
            ELSE IF r.name = <<>> THEN r.cluster
            ELSE IF f.found THEN f.cluster ELSE current_cluster
  /\ UNCHANGED <<data, boot_sector>>

NextImage ==
  \/ \E path \in Paths, checks \in BOOLEAN : ImageLs(path, checks)
  \/ \E path \in Paths, checks \in BOOLEAN : ImageCat(path, checks)
  \/ \E path \in Paths, checks \in BOOLEAN : ImageCd(path, checks)

SpecImage == InitImage /\ [][NextImage]_vars

(***************************************************************************)
(* SpecWrite: write_dir_entry applied once to a directory of a volume,     *)
(* over names, clusters and sizes                                          *)
(***************************************************************************)
\* "n.txt", "README", "longname1.txt", "a.b.c", "n.text", "n."
WriteNames ==
  { <<110, 46, 116, 120, 116>>,
    <<82, 69, 65, 68, 77, 69>>,
    <<108, 111, 110, 103, 110, 97, 109, 101, 49, 46, 116, 120, 116>>,
    <<97, 46, 98, 46, 99>>,
    <<110, 46, 116, 101, 120, 116>>,
    <<110, 46>> }

\* 0, 3, 0x00030005, and the largest modelled value
WriteClusters == {0, 3, 3 * 65536 + 5, MaxInt}
\* 0, 2, 0x01020304, and the largest modelled value
WriteSizes == {0, 2, ((1 * 256 + 2) * 256 + 3) * 256 + 4, MaxInt}

\* "cd <dirname>" before the write, to choose the directory
EnterDirectory(dirname) ==
  /\ result.op = "none"
  /\ ChangeDirectory(dirname)

\* self.write_dir_entry(dir_offset, filename, cluster, size), with the
\* dir_offset of the current directory as create_file computes it
\* (volume.rs 202-203)
WriteDirEntry(filename, cluster, size) ==
  /\ result.op \in {"none", "change_directory"}
  /\ \E r \in {write_dir_entry(data, start_cursor(data, boot_sector, current_cluster),
                               filename, cluster, size)} :
       /\ result' = [op |-> "write_dir_entry", dir |-> current_cluster,
                     filename |-> filename, cluster |-> cluster, size |-> size,
                     panic |-> r.panic, ok |-> r.ok]
                      @@ (IF "err" \in DOMAIN r THEN [err |-> r.err] ELSE <<>>)
                      @@ (IF "slot" \in DOMAIN r THEN [slot |-> r.slot] ELSE <<>>)
       /\ data' = r.data
  /\ UNCHANGED <<boot_sector, current_cluster>>

NextWrite ==
  \/ \E dirname \in DirNames : EnterDirectory(dirname)
  \/ \E filename \in WriteNames, cluster \in WriteClusters, size \in WriteSizes :
       WriteDirEntry(filename, cluster, size)
  \/ ListCurrent

SpecWrite == Init /\ [][NextWrite]_vars

(***************************************************************************)
(* Properties of a session (Spec)                                          *)
(***************************************************************************)
\* the listing of a directory holds an entry of that name
NamePresent(d, bs, cluster, filename) ==
  \E i \in 1..Len(list_directory(d, bs, cluster)) :
    eq_ignore_ascii_case(list_directory(d, bs, cluster)[i].full_name, filename)

\* the bytes of one cluster
ClusterBytes(bs) == bs.sectors_per_cluster * bs.bytes_per_sector

\* C1: whenever create_file(name, content) succeeds for a name the directory
\* does not list and a content of at most one cluster, read_file(name) in the
\* same directory right after it returns exactly content.
C1_CreateThenReadReturnsContent ==
  [][ ( /\ result'.op = "create_file" /\ result'.ok
        /\ Len(result'.content) <= ClusterBytes(boot_sector)
        /\ ~NamePresent(data, boot_sector, current_cluster, result'.filename) )
      => LET r == read_file(data', boot_sector', current_cluster', result'.filename)
         IN r.ok /\ r.content = result'.content ]_vars

\* The index of the first slot of a scan that is marked 0x00 (or at which
\* the scan leaves the range, or the cap), counting from slot k at cursor.
RECURSIVE FirstEndSlot(_, _, _)
FirstEndSlot(d, cursor, k) ==
  IF k >= 128 \/ cursor + 32 > ByteLen(d) THEN k
  ELSE IF d[cursor] = 0 THEN k
  ELSE FirstEndSlot(d, cursor + 32, k + 1)

\* the 32 bytes of slot k of a directory
SlotOf(d, bs, cluster, k) == EntryAt(d, start_cursor(d, bs, cluster) + 32 * k)

\* C8: list, change_directory and read_file never list or match a record at
\* or after the first slot of the directory whose first byte is 0x00.
C8_TerminatorEndsTheScan ==
  /\ result.op = "list_current" =>
       \A i \in 1..Len(result.files) :
         result.files[i].slot
           < FirstEndSlot(data, start_cursor(data, boot_sector, result.dir), 0)
  /\ (result.op \in {"change_directory", "read_file"} /\ "slot" \in DOMAIN result
        /\ result.slot >= 0) =>
       result.slot < FirstEndSlot(data, start_cursor(data, boot_sector, result.dir), 0)

\* "sub" is looked for in a root whose slot 1 is a terminator with stale
\* bytes and whose slot 2 holds the stale record of SUB: it is not found
C8_Witness ==
  /\ result.op = "change_directory" /\ result.dirname = <<115, 117, 98>> /\ ~result.ok
  /\ FirstEndSlot(data, start_cursor(data, boot_sector, result.dir), 0) = 1
  /\ SlotOf(data, boot_sector, result.dir, 1)[1] # 0
  /\ entry_name(SlotOf(data, boot_sector, result.dir, 2)) = <<83, 85, 66>>

\* a record the listing shows: neither free nor deleted, neither a long-name
\* fragment nor a volume label
Listable(entry) ==
  /\ entry[0] # 0 /\ entry[0] # 229
  /\ entry[11] # 15 /\ ~attr_volume_label(entry[11])

\* C9: a listing holds no record whose first byte is 0xE5, and holds every
\* live record that lies after such a record and before the terminator.
C9_DeletedIsSkippedNotTerminating ==
  result.op = "list_current" =>
    LET end == FirstEndSlot(data, start_cursor(data, boot_sector, result.dir), 0)
        listed == {result.files[i].slot : i \in 1..Len(result.files)}
    IN /\ \A k \in listed : SlotOf(data, boot_sector, result.dir, k)[0] # 229
       /\ \A j \in 0..(end - 1) : \A k \in (j + 1)..(end - 1) :
            ( /\ SlotOf(data, boot_sector, result.dir, j)[0] = 229
              /\ Listable(SlotOf(data, boot_sector, result.dir, k)) )
            => k \in listed
       /\ LET image == Fat32Image_list_directory(data, ImageBootSector(boot_sector),
                                                 result.dir, FALSE)
              printed == {image.printed[i].slot : i \in 1..Len(image.printed)}
          IN result.dir >= 2 =>
               /\ \A k \in printed : SlotOf(data, boot_sector, result.dir, k)[0] # 229
               /\ \A j \in 0..(Min(end, 100) - 1) : \A k \in (j + 1)..(Min(end, 100) - 1) :
                    ( /\ SlotOf(data, boot_sector, result.dir, j)[0] = 229
                      /\ SlotOf(data, boot_sector, result.dir, k)[0] # 229
                      /\ SlotOf(data, boot_sector, result.dir, k)[11] # 15 )
                    => k \in printed

\* a root whose slot 0 is deleted and whose slots 1 and 2 are live: the
\* listing holds exactly the two live records
C9_Witness ==
  /\ result.op = "list_current"
  /\ SlotOf(data, boot_sector, result.dir, 0)[0] = 229
  /\ Len(result.files) = 2
  /\ result.files[1].slot = 1 /\ result.files[2].slot = 2

(***************************************************************************)
(* Properties of write_dir_entry (SpecWrite)                               *)
(***************************************************************************)
\* a character of an 8.3 name: printable ASCII other than the space and '.'
NameChar(c) == c > 32 /\ c < 127 /\ c # 46

\* an 8.3 name: 1 to 8 name characters, then nothing or '.' and 1 to 3
\* extension characters
IsShortName(filename) ==
  \E n \in 1..8 :
    /\ n <= Len(filename)
    /\ \A i \in 1..n : NameChar(filename[i])
    /\ \/ Len(filename) = n
       \/ /\ Len(filename) \in (n + 2)..(n + 4)
          /\ filename[n + 1] = 46
          /\ \A i \in (n + 2)..Len(filename) : NameChar(filename[i])

\* the scan of the directory yields the record just written: a listed entry
\* of that name and size whose slot decodes to that cluster
ScanYieldsWritten ==
  \E i \in 1..Len(list_directory(data, boot_sector, result.dir)) :
    LET e == list_directory(data, boot_sector, result.dir)[i] IN
      /\ eq_ignore_ascii_case(e.full_name, result.filename)
      /\ e.size = result.size
      /\ entry_cluster(SlotOf(data, boot_sector, result.dir, e.slot)) = result.cluster

DirStart(bs, cluster) ==
  (bs.reserved_sector + bs.number_of_fats * bs.sectors_per_fat
     + (cluster - 2) * bs.sectors_per_cluster) * bs.bytes_per_sector

\* slot k of the directory at `start` is a live record of that name (up to
\* case) which a scan of at most 100 slots reaches before any terminator
NamedEntry(d, start, k, name) ==
  /\ k < 100 /\ start + 32 * (k + 1) <= ByteLen(d)
  /\ \A j \in 0..k : d[start + 32 * j] # 0
  /\ d[start + 32 * k] # 229 /\ d[start + 32 * k + 11] # 15
  /\ format_name(EntryAt(d, start + 32 * k)) = to_lowercase(name)

\* the slots holding the first record of that name: one slot or none
FirstNamed(d, start, name) ==
  {k \in 0..99 : NamedEntry(d, start, k, name)
                 /\ \A j \in 0..(k - 1) : ~NamedEntry(d, start, j, name)}

\* the directory holds a directory entry of that name
HoldsDirectory(d, bs, cluster, name) ==
  \E k \in FirstNamed(d, DirStart(bs, cluster), name) :
    attr_directory(d[DirStart(bs, cluster) + 32 * k + 11])

\* the cluster that entry points at, cluster 0 standing for cluster 2
DirectoryCluster(d, bs, cluster, name) ==
  LET k == CHOOSE k \in FirstNamed(d, DirStart(bs, cluster), name) : TRUE
      c == entry_cluster(EntryAt(d, DirStart(bs, cluster) + 32 * k))
  IN IF c = 0 THEN 2 ELSE c

\* the directory is a data cluster of the image with a terminator in reach
Terminated(d, bs, cluster) ==
  /\ cluster >= 2
  /\ \E k \in 0..99 : /\ DirStart(bs, cluster) + 32 * (k + 1) <= ByteLen(d)
                      /\ d[DirStart(bs, cluster) + 32 * k] = 0

\* The first of the parent segments that is no directory entry of the
\* directory reached so far, with its index; `failed` is FALSE when every
\* segment is one, or when the walk leaves the terminated directories.
RECURSIVE FirstFailing(_, _, _, _, _)
FirstFailing(d, bs, cluster, parents, index) ==
  IF parents = <<>> \/ ~Terminated(d, bs, cluster) THEN [failed |-> FALSE]
  ELSE IF HoldsDirectory(d, bs, cluster, Head(parents))
       THEN FirstFailing(d, bs, DirectoryCluster(d, bs, cluster, Head(parents)),
                         Tail(parents), index + 1)
       ELSE [failed |-> TRUE, segment |-> Head(parents), index |-> index]

\* the segments of a path before the last one, and the directory it starts in
ParentSegments(path) ==
  LET parts == filter_not_empty(split(path, 47))
  IN IF parts = <<>> THEN <<>> ELSE SubSeq(parts, 1, Len(parts) - 1)

StartOf(path, start, bs) ==
  IF path # <<>> /\ Head(path) = 47 THEN bs.root_dir_cluster ELSE start

\* "/sub/file.txt", "sub", "file.txt"
PathSubFile == <<47, 115, 117, 98, 47, 102, 105, 108, 101, 46, 116, 120, 116>>
NameSub == <<115, 117, 98>>
NameFile == <<102, 105, 108, 101, 46, 116, 120, 116>>

\* C10: resolve_path(root, "/sub/file.txt") returns (cluster of sub,
\* Some("file.txt")) when the root holds a directory entry named sub; when a
\* parent segment has no entry or an entry that is no directory, it returns
\* NotFound naming that first failing segment, after no further lookup.
C10_ResolvePath ==
  result.op \in {"ls", "cat", "cd"} =>
    LET r == result.resolved
        failing == FirstFailing(data, boot_sector,
                                StartOf(result.path, result.start, boot_sector),
                                ParentSegments(result.path), 1)
    IN /\ ( /\ result.path = PathSubFile
            /\ Terminated(data, boot_sector, boot_sector.root_dir_cluster)
            /\ HoldsDirectory(data, boot_sector, boot_sector.root_dir_cluster, NameSub) )
          => /\ ~r.panic /\ r.ok
             /\ r.cluster = DirectoryCluster(data, boot_sector,
                                             boot_sector.root_dir_cluster, NameSub)
             /\ r.name = <<NameFile>>
       /\ failing.failed
          => /\ ~r.panic /\ ~r.ok /\ r.kind = "NotFound"
             /\ r.message = <<"Dossier introuvable : ", failing.segment>>
             /\ r.walked = failing.index

\* "/sub/file.txt" resolved from the subdirectory itself, on a volume whose
\* root holds SUB at cluster 3
C10_Witness ==
  /\ result.op = "cat" /\ result.path = PathSubFile /\ result.start = 3
  /\ HoldsDirectory(data, boot_sector, boot_sector.root_dir_cluster, NameSub)
  /\ result.resolved.ok /\ result.resolved.cluster = 3
  /\ result.resolved.name = <<NameFile>>
  /\ result.resolved.walked = 1

(***************************************************************************)
(* Properties of allocation (Spec)                                         *)
(***************************************************************************)
\* the number of entries of the first FAT, and the value of entry i
FatEntries(bs) == (bs.sectors_per_fat_32 * bs.bytes_per_sector) \div 4
FatEntry(d, bs, i) ==
  LittleEndian(Slice(d, bs.reserved_sectors * bs.bytes_per_sector + 4 * i,
                     bs.reserved_sectors * bs.bytes_per_sector + 4 * i + 4))

\* the first FAT lies within the range and every entry from index 3 is nonzero
FatFull(d, bs) ==
  /\ bs.reserved_sectors * bs.bytes_per_sector + 4 * FatEntries(bs) <= ByteLen(d)
  /\ \A i \in 3..(FatEntries(bs) - 1) : FatEntry(d, bs, i) # 0

\* C11: when every entry of the first FAT from index 3 on is nonzero,
\* create_file gets no cluster, fails with "Disque plein" (OutOfSpace) and
\* leaves every byte of the volume as it was.
C11_FullFatIsOutOfSpace ==
  [][ (result'.op = "create_file" /\ FatFull(data, boot_sector))
      => /\ ~result'.panic /\ ~result'.ok
         /\ result'.err = "Disque plein"
         /\ "cluster" \notin DOMAIN result'
         /\ data' = data ]_vars

\* create_file has failed on a volume whose FAT is full from index 3 on and
\* whose entry 2 reads zero
C11_Witness ==
  /\ result.op = "create_file" /\ ~result.panic /\ ~result.ok
  /\ result.err = "Disque plein"
  /\ FatFull(data, boot_sector)
  /\ FatEntry(data, boot_sector, 2) = 0

(***************************************************************************)
(* Properties of the current directory                                     *)
(***************************************************************************)
\* C12: the current cluster is the root cluster right after the volume is
\* opened, and it changes only in a change_directory call that succeeds.
C12_CurrentClusterLifecycle ==
  /\ [](result.op = "none" => current_cluster = boot_sector.root_dir_cluster)
  /\ [][ current_cluster' # current_cluster
         => (result'.op = "change_directory" /\ result'.ok
             /\ current_cluster' = result'.cluster) ]_vars

\* a change_directory that fails inside the subdirectory an earlier call
\* entered: the current cluster is still the subdirectory's
C12_Witness ==
  /\ result.op = "change_directory" /\ ~result.ok
  /\ current_cluster = 3 /\ boot_sector.root_dir_cluster = 2
  /\ result.dir = 3

\* The reader's shell (fat32_reader main.rs 379-404): its current cluster is
\* the root cluster at the start and changes only in a "cd" whose path
\* resolved and whose leaf, if any, was found to be a directory.
C12_ImageCurrentCluster ==
  /\ [](result.op = "none" => current_cluster = boot_sector.root_dir_cluster)
  /\ [][ current_cluster' # current_cluster
         => ( /\ result'.op = "cd" /\ ~result'.panic /\ result'.resolved.ok
              /\ \/ result'.resolved.name = <<>>
                 \/ result'.leaf.ok /\ result'.leaf.found ) ]_vars

\* C13: a listing is determined by the bytes of the volume and the directory
\* cluster alone, a list call changes neither, and the bytes change only in
\* create_file: two listings of a directory with no create_file in between
\* are the same sequence.
C13_ScanIsRepeatable ==
  /\ [](result.op = "list_current"
          => /\ result.dir = current_cluster
             /\ result.files = list_directory(data, boot_sector, result.dir))
  /\ [][ result'.op = "list_current"
         => (data' = data /\ current_cluster' = current_cluster) ]_vars
  /\ [][ data' # data => result'.op = "create_file" ]_vars

\* the subdirectory listed after a change_directory entered it, on a volume
\* a create_file changed before
C13_Witness ==
  /\ result.op = "list_current" /\ result.dir = 3
  /\ Len(result.files) = 2
  /\ result.files[2].full_name = <<46, 46>>
  /\ \E k \in 0..3 : entry_name(SlotOf(data, boot_sector, 2, k)) = <<78>>

\* C14: a cluster that allocate_cluster returns is the lowest index i >= 3
\* whose FAT entry was zero, and after the call that entry holds 0x0FFFFFFF.
C14_AllocatesLowestFree ==
  [][ (result'.op = "create_file" /\ "cluster" \in DOMAIN result')
      => /\ result'.cluster >= 3
         /\ FatEntry(data, boot_sector, result'.cluster) = 0
         /\ \A i \in 3..(result'.cluster - 1) : FatEntry(data, boot_sector, i) # 0
         /\ FatEntry(data', boot_sector, result'.cluster) = EOC ]_vars

\* cluster 3 was allocated on a volume whose FAT entry 2 reads zero
C14_Witness ==
  /\ result.op = "create_file" /\ result.ok /\ result.cluster = 3
  /\ FatEntry(data, boot_sector, 2) = 0
  /\ FatEntry(data, boot_sector, 3) = EOC

(***************************************************************************)
(* SpecLarge: a session whose "touch" passes contents of one cluster and   *)
(* of one byte more                                                        *)
(***************************************************************************)
\* a text of n letters 'h'
Letters(n) == [i \in 1..n |-> 104]

\* exactly one cluster, and one byte more
LargeContents ==
  { Letters(VolumeGeometry.spc * VolumeGeometry.bps),
    Letters(VolumeGeometry.spc * VolumeGeometry.bps + 1) }

\* B.TXT at cluster 4 with a recorded size of the whole image: its data
\* would end past the end of the range
FileFar == Record(<<66>>, <<84, 88, 84>>, 32, 4, VolumeLen)

\* a root directory holding B.TXT, too long for the range, then A.TXT
LargeVolumes ==
  { [clusters |-> <<Flatten(<<FileFar, FileA, EndSlot, EndSlot>>), <<>>, <<104, 105>>>>,
     used |-> <<FALSE, TRUE>>, tail |-> TRUE] }

InitLarge ==
  /\ \E v \in Volumes \cup LargeVolumes : data = VolumeImage(v)
  /\ boot_sector = Fat32Volume_new(data).boot_sector
  /\ current_cluster = Fat32Volume_new(data).current_cluster
  /\ result = NoResult

NextLarge ==
  \/ \E filename \in NewNames, content \in LargeContents : CreateFile(filename, content)
  \/ \E filename \in FileNames : ReadFile(filename)
  \/ ListCurrent

SpecLarge == InitLarge /\ [][NextLarge]_vars

\* the byte indices of a cluster's region
ClusterRegion(bs, cluster) ==
  { i \in Int : /\ i >= ToInt(offset_from_cluster(bs, cluster))
                /\ i < ToInt(offset_from_cluster(bs, cluster)) + ClusterBytes(bs) }

\* C15: create_file with a content longer than one cluster fails with an
\* error of its own (FileTooLarge), installs no directory entry, and changes
\* no byte other than the FAT entry and the region of the cluster it
\* allocated.
C15_TooLargeIsRefused ==
  [][ (result'.op = "create_file" /\ Len(result'.content) > ClusterBytes(boot_sector))
      => /\ ~result'.panic /\ ~result'.ok
         /\ result'.err \notin {"Disque plein", "Répertoire plein"}
         /\ "slot" \notin DOMAIN result'
         /\ \A i \in DOMAIN data :
              data'[i] # data[i]
                => /\ "cluster" \in DOMAIN result'
                   /\ \/ i \in ClusterRegion(boot_sector, result'.cluster)
                      \/ (i - boot_sector.reserved_sectors * boot_sector.bytes_per_sector)
                           \div 4 = result'.cluster ]_vars

\* the name read_file compares with the requested one
RecordFullName(entry) ==
  IF entry_ext(entry) = <<>> THEN entry_name(entry)
  ELSE dotted(entry_name(entry), entry_ext(entry))

\* the slots before the terminator holding a record of that name
NamedSlots(d, bs, cluster, filename) ==
  { k \in 0..(FirstEndSlot(d, start_cursor(d, bs, cluster), 0) - 1) :
      eq_ignore_ascii_case(RecordFullName(SlotOf(d, bs, cluster, k)), filename) }

\* the record's data offset plus its size exceeds the range
ExceedsRange(d, bs, entry) ==
  BigLt(Big(ByteLen(d)),
        BigAdd(offset_from_cluster(bs, entry_cluster(entry)), Big(entry_size(entry))))

\* C16: when the first record read_file's name designates is a file whose
\* data offset plus size exceeds the range, read_file fails with an error of
\* its own (OutOfRange), neither "not found" nor data; when the data lies
\* within the range it returns exactly the record's size bytes from the data
\* offset.
C16_OutOfRangeIsReported ==
  result.op = "read_file" =>
    \A k \in NamedSlots(data, boot_sector, result.dir, result.filename) :
      (/\ \A j \in NamedSlots(data, boot_sector, result.dir, result.filename) : k <= j
       /\ ~attr_directory(SlotOf(data, boot_sector, result.dir, k)[11]))
      => LET entry == SlotOf(data, boot_sector, result.dir, k)
             at == ToInt(offset_from_cluster(boot_sector, entry_cluster(entry)))
         IN IF ExceedsRange(data, boot_sector, entry)
            THEN /\ ~result.ok
                 /\ result.err \notin {"Fichier introuvable", "C'est un dossier, utilisez cd"}
            ELSE /\ result.ok
                 /\ result.content = Slice(data, at, at + entry_size(entry))

\* C17: a lookup that matches a directory record whose start cluster reads 0
\* yields the root directory's cluster of the boot sector (offset 44),
\* whatever that cluster is.  This is the reader's lookup (find_sub_directory,
\* in "ls <path>" and "cd <path>").
C17_ClusterZeroIsRoot ==
  (/\ result.op \in {"ls", "cd"} /\ ~result.panic
   /\ "slot" \in DOMAIN result.leaf /\ result.leaf.found)
  => LET entry == EntryAt(data, DirStart(boot_sector, result.resolved.cluster)
                                  + 32 * result.leaf.slot)
     IN entry_cluster(entry) = 0
          => /\ result.leaf.cluster = boot_sector.root_dir_cluster
             /\ result.op = "cd" => current_cluster = boot_sector.root_dir_cluster

\* the same for the volume's change_directory
C17_VolumeClusterZeroIsRoot ==
  (/\ result.op = "change_directory" /\ result.ok /\ result.slot >= 0
   /\ entry_cluster(SlotOf(data, boot_sector, result.dir, result.slot)) = 0)
  => /\ result.cluster = boot_sector.root_dir_cluster
     /\ current_cluster = boot_sector.root_dir_cluster

\* ".." entered from SUB on the volume whose root directory is cluster 3
C17_VolumeWitness ==
  /\ result.op = "change_directory" /\ result.ok /\ result.dir = 2
  /\ result.dirname = <<46, 46>> /\ boot_sector.root_dir_cluster = 3
  /\ current_cluster = 3

\* the maximal runs of characters other than '/' of a text, in order
RECURSIVE Runs(_, _)
Runs(t, run) ==
  IF t = <<>> THEN (IF run = <<>> THEN <<>> ELSE <<run>>)
  ELSE IF Head(t) = 47
       THEN (IF run = <<>> THEN <<>> ELSE <<run>>) \o Runs(Tail(t), <<>>)
       ELSE Runs(Tail(t), Append(run, Head(t)))

Rooted(path) == path # <<>> /\ Head(path) = 47

\* the clusters a lookup may start in
StartClusters == 0..(ImageClusters + 2)

\* C18: the result of resolve_path depends only on the directory it starts in
\* and on the non-empty '/'-separated segments: a path with a leading '/'
\* gives the same result from every start cluster, namely the one from the
\* root; paths with the same start and the same segments give the same
\* result whatever slashes are repeated or trail; a path without a non-empty
\* segment gives (starting directory, None) without any lookup.
C18_ResolveDependsOnSegments ==
  result.op \in {"ls", "cat", "cd"} =>
    \E checks \in BOOLEAN :
      /\ result.resolved
           = resolve_path(data, boot_sector, result.start, result.path, checks)
      /\ Rooted(result.path) =>
           \A start \in StartClusters :
             resolve_path(data, boot_sector, start, result.path, checks) = result.resolved
      /\ \A other \in Paths :
           (Rooted(other) = Rooted(result.path) /\ Runs(other, <<>>) = Runs(result.path, <<>>))
             => resolve_path(data, boot_sector, result.start, other, checks) = result.resolved
      /\ Runs(result.path, <<>>) = <<>> =>
           result.resolved
             = [panic |-> FALSE, ok |-> TRUE, name |-> <<>>, walked |-> 0,
                cluster |-> IF Rooted(result.path) THEN boot_sector.root_dir_cluster
                            ELSE result.start]

\* "/sub//file.txt/" resolved from the subdirectory (cluster 3) of a volume
\* whose root is cluster 2: the result is that of "/sub/file.txt" from the root
C18_Witness ==
  /\ result.op = "cat"
  /\ result.path = <<47, 115, 117, 98, 47, 47, 102, 105, 108, 101, 46, 116, 120, 116, 47>>
  /\ result.start = 3 /\ boot_sector.root_dir_cluster = 2
  /\ result.resolved = [panic |-> FALSE, ok |-> TRUE, cluster |-> 3,
                        name |-> <<NameFile>>, walked |-> 1]
  /\ result.shown.ok

\* "//" from the subdirectory: the root, no name, no lookup
C18_WitnessNoSegment ==
  /\ result.op = "cd" /\ result.path = <<47, 47>> /\ result.start = 3
  /\ boot_sector.root_dir_cluster = 2 /\ current_cluster = 2
  /\ result.resolved.walked = 0 /\ result.resolved.name = <<>>

\* C19: read_file and change_directory match only records the listing shows:
\* the record either of them matched is never a deleted record, a long-name
\* record (attribute 0x0F) or a volume label (attribute bit 0x08), and the
\* listing shows none of these.
C19_LookupSeesListedEntries ==
  /\ result.op = "list_current" =>
       \A i \in 1..Len(result.files) :
         Listable(SlotOf(data, boot_sector, result.dir, result.files[i].slot))
  /\ (result.op \in {"change_directory", "read_file"} /\ "slot" \in DOMAIN result
        /\ result.slot >= 0) =>
       Listable(SlotOf(data, boot_sector, result.dir, result.slot))

\* C20: on every opened volume, malformed ones included, each operation
\* returns a success or an error: none indexes the byte range at or beyond
\* its length, which is a panic.
C20_NoOperationPanics ==
  result.op \in {"get_info", "list_current", "change_directory", "read_file", "create_file"}
    => /\ ~("panic" \in DOMAIN result /\ result.panic)
       /\ "ok" \in DOMAIN result => (result.ok \/ "err" \in DOMAIN result)

\* the slots of a directory's own cluster, and those of them that are free
\* (marker 0x00 or 0xE5)
ClusterSlots(bs) == 0..((ClusterBytes(bs) \div 32) - 1)

FreeSlots(d, bs, cluster) ==
  { k \in ClusterSlots(bs) : SlotOf(d, bs, cluster, k)[0] \in {0, 229} }

\* C21: a create_file that reaches write_dir_entry stores the record in a
\* slot of the current directory's own cluster, changing no byte of another
\* cluster's data region except the content it copied into the allocated
\* cluster; when the directory's cluster has no free slot it fails with
\* "Répertoire plein" (DirectoryFull) and stores no record.
C21_RecordStaysInDirectoryCluster ==
  [][ (result'.op = "create_file" /\ ~result'.panic /\ "cluster" \in DOMAIN result')
      => LET at == ToInt(offset_from_cluster(boot_sector, result'.cluster))
             content_region == { i \in Int : i >= at /\ i < at + Len(result'.content) }
             fat_start == boot_sector.reserved_sectors * boot_sector.bytes_per_sector
         IN /\ IF FreeSlots(data, boot_sector, current_cluster) = {}
               THEN /\ ~result'.ok /\ result'.err = "Répertoire plein"
                    /\ "slot" \notin DOMAIN result'
               ELSE /\ result'.ok
                    /\ result'.slot \in FreeSlots(data, boot_sector, current_cluster)
            /\ \A i \in DOMAIN data :
                 data'[i] # data[i]
                   => \/ i \in ClusterRegion(boot_sector, current_cluster)
                      \/ i \in content_region
                      \/ (i - fat_start) \div 4 = result'.cluster ]_vars

(***************************************************************************)
(* SpecFull: "touch" and "cat" on volumes whose directory has no free slot *)
(* among the 64 that write_dir_entry scans                                 *)
(***************************************************************************)
\* a range that holds the 64 slots from the root directory's offset
FullLen == 640 + 64 * 32

\* A volume every byte of which, outside the boot-sector fields, is a
\* pattern byte (no slot marker is 0x00 or 0xE5, no FAT entry is zero),
\* except the FAT entries of the clusters in `free`, which read zero.
FullImage(free) ==
  LET m == MockVolume(FullLen, VolumeGeometry, <<85, 170>>, TRUE)
  IN [i \in DOMAIN m |->
        IF i >= 512 /\ i < 640 /\ ((i - 512) \div 4) \in free THEN 0 ELSE m[i]]

\* the sets of free clusters the sessions start with
FullVolumes == { {3, 4}, {3}, {17} }

InitFull ==
  /\ \E free \in FullVolumes : data = FullImage(free)
  /\ boot_sector = Fat32Volume_new(data).boot_sector
  /\ current_cluster = Fat32Volume_new(data).current_cluster
  /\ result = NoResult

NextFull ==
  \/ \E filename \in NewNames, content \in Contents : CreateFile(filename, content)
  \/ \E filename \in FileNames : ReadFile(filename)

SpecFull == InitFull /\ [][NextFull]_vars

\* C22: a create_file that returns an error leaves every byte of the volume
\* as it was before the call: no FAT entry is newly marked and no content is
\* written, in particular when the error is "Répertoire plein"
\* (DirectoryFull).
C22_FailedCreateChangesNothing ==
  [][ (result'.op = "create_file" /\ ~result'.panic /\ ~result'.ok) => data' = data ]_vars

\* the bytes of the first FAT, as far as the range holds them
FirstFatBytes(d, bs) ==
  { i \in DOMAIN d : /\ i >= bs.reserved_sectors * bs.bytes_per_sector
                     /\ i < bs.reserved_sectors * bs.bytes_per_sector + 4 * FatEntries(bs) }

\* the entries of the first FAT from index 3 that lie within the range
FatIndices(d, bs) ==
  { i \in 3..(FatEntries(bs) - 1) :
      bs.reserved_sectors * bs.bytes_per_sector + 4 * i + 4 <= ByteLen(d) }

\* a create_file step that got a cluster: the cluster is >= 3, its entry in
\* the first FAT was zero before the call and is nonzero after it, and a
\* successful call changed bytes of that entry only within the first FAT
AllocationStep ==
  (result'.op = "create_file" /\ "cluster" \in DOMAIN result')
    => /\ result'.cluster >= 3
       /\ FatEntry(data, boot_sector, result'.cluster) = 0
       /\ FatEntry(data', boot_sector, result'.cluster) # 0
       /\ result'.ok =>
            \A i \in FirstFatBytes(data, boot_sector) :
              data'[i] # data[i]
                => (i - boot_sector.reserved_sectors * boot_sector.bytes_per_sector)
                     \div 4 = result'.cluster

\* no nonzero entry of index >= 3 of the first FAT becomes zero
UsedStaysUsed ==
  \A i \in FatIndices(data, boot_sector) :
    FatEntry(data, boot_sector, i) # 0 => FatEntry(data', boot_sector, i) # 0

\* C23: every cluster a create_file call obtains from allocate_cluster is
\* >= 3 and had a zero entry in the first FAT right before the call; a call
\* that succeeds changes, in the first FAT, bytes of that cluster's entry
\* only; and no call makes a nonzero entry of index >= 3 zero again, so that
\* no later call of the sequence obtains a cluster handed out before.
C23_ClustersAreHandedOutOnce ==
  [][AllocationStep]_vars /\ [][UsedStaysUsed]_vars

\* C23, on volumes whose boot sector counts at least one FAT (the data
\* region then begins behind the first FAT): the same.
C23_ClustersAreHandedOutOnce_BehindFat ==
  /\ [][boot_sector.number_of_fats >= 1 => AllocationStep]_vars
  /\ [][boot_sector.number_of_fats >= 1 => UsedStaysUsed]_vars

\* the second create_file of a session on a volume with one FAT got
\* cluster 4, the first one having got cluster 3
C23_Witness ==
  /\ boot_sector.number_of_fats = 1
  /\ result.op = "create_file" /\ result.ok /\ result.cluster = 4
  /\ FatEntry(data, boot_sector, 3) = EOC /\ FatEntry(data, boot_sector, 4) = EOC
  /\ \E k \in ClusterSlots(boot_sector) :
       /\ entry_cluster(SlotOf(data, boot_sector, current_cluster, k)) = 3
       /\ SlotOf(data, boot_sector, current_cluster, k)[11] = 32

\* a cluster handed out twice: on the volume without a counted FAT, the
\* record of the file that got cluster 15 lies over FAT entries 8..15
C23_HandedOutTwice ==
  /\ boot_sector.number_of_fats = 0
  /\ result.op = "create_file" /\ result.ok /\ result.cluster = 15
  /\ FatEntry(data, boot_sector, 15) = EOC
  /\ entry_cluster(SlotOf(data, boot_sector, current_cluster, 1)) = 15
  /\ entry_cluster(SlotOf(data, boot_sector, current_cluster, 2)) = 15

(***************************************************************************)
(* SpecOverlap: "touch" and "ls" on the volumes of Spec and on             *)
(* volumes whose boot sector gives a FAT count of 0, so that the data      *)
(* region begins where the first FAT begins                                *)
(***************************************************************************)
\* 32-byte sectors and clusters, the FAT (16 entries) at 512, no FAT counted:
\* cluster c lies at 512 + 32 * (c - 2), and clusters 2 and 3 are the FAT
OverlapGeometry == [bps |-> 32, spc |-> 1, reserved |-> 16, fats |-> 0, spf |-> 2, root |-> 2]

\* the range ends with cluster 17
OverlapLen == 512 + 16 * 32

\* the image whose FAT entries are fat[0..15]
OverlapImage(fat) ==
  LET boot == MockVolume(OverlapLen, OverlapGeometry, <<85, 170>>, FALSE)
  IN [i \in 0..(OverlapLen - 1) |->
        IF i >= 512 /\ i < 576 THEN u32_to_le_bytes(fat[(i - 512) \div 4])[((i - 512) % 4) + 1]
        ELSE boot[i]]

\* 0x0FFFFFF8, the media entry of FAT index 0
MediaEntry == 268435448

\* clusters 3 and 4 free; and every cluster used but 15, entry 8 being a
\* link to cluster 229
OverlapVolumes ==
  { [i \in 0..15 |-> IF i = 0 THEN MediaEntry ELSE IF i \in {3, 4} THEN 0 ELSE EOC],
    [i \in 0..15 |-> IF i = 0 THEN MediaEntry ELSE IF i = 8 THEN 229
                     ELSE IF i = 15 THEN 0 ELSE EOC] }

InitOverlap ==
  /\ data \in {VolumeImage(v) : v \in Volumes} \cup {OverlapImage(fat) : fat \in OverlapVolumes}
  /\ boot_sector = Fat32Volume_new(data).boot_sector
  /\ current_cluster = Fat32Volume_new(data).current_cluster
  /\ result = NoResult

NextOverlap ==
  \/ \E filename \in NewNames, content \in Contents : CreateFile(filename, content)
  \/ ListCurrent

SpecOverlap == InitOverlap /\ [][NextOverlap]_vars
====
